---- MODULE Spec2Model ----
(***************************************************************************)
(* A model of the hybrid ML / rule-based job-intelligence pipeline:        *)
(*   ml_models/clustering.py          CompanyClusterer, OpportunityScorer  *)
(*   ml_models/text_classifier.py     UrgencyClassifier,                   *)
(*                                    TechStackClassifier                  *)
(*   ml_models/feature_engineering.py JobFeatureExtractor                  *)
(*   ml_models/predictive.py          HiringTrendPredictor                 *)
(*   agent2_signal_processor/ml_processor.py   MLSignalProcessor           *)
(*   agent3_insight_generator/ml_insights.py   MLInsightGenerator          *)
(*   ml_agent_runner.py                        MLJobIntelligenceSystem     *)
(*                                                                         *)
(* A posting is a record holding the fields the code reads; its           *)
(* technologies are counted, not named.  Numeric library results (a        *)
(* k-means labelling, a weighted dot product, a learned probability) are   *)
(* inputs drawn from bounded sets; library calls that reject their input   *)
(* are modelled by the condition under which they raise.                   *)
(* One specification per object under study; each leaves the variables of  *)
(* the other objects unchanged.                                            *)
(***************************************************************************)
EXTENDS Integers, Sequences, FiniteSets, TLC

VARIABLES
    \* CompanyClusterer
    k_requested,        \* the n_clusters argument the clusterer was constructed with
    n_clusters,         \* self.n_clusters
    clusterer_fitted,   \* self.is_fitted
    cl_call,            \* the last fit_predict call: its input, outcome and result
    \* JobFeatureExtractor
    label_encoders,     \* self.label_encoders: column -> classes_ ({} when the column has no encoder)
    extractor_fitted,   \* self.is_fitted
    tfidf_vocabulary,   \* the terms self.tfidf_vectorizer is fitted to ({} before a fit)
    scaler_stats,       \* the terms of the descriptions self.scaler took its statistics from ({} before a fit)
    fx_call,            \* the last extraction call and its outcome
    \* OpportunityScorer
    scorer_fitted,      \* self.is_fitted
    sc_call,            \* the last fit / score_opportunities call and its outcome
    \* One orchestrator run
    run_jobs,           \* the postings of the run
    ig,                 \* MLInsightGenerator: its flags and those of its sub-models
    ig_call,            \* the last MLInsightGenerator call and what it returned
    rn,                 \* MLJobIntelligenceSystem: its flag and those of its sub-models
    rn_call,            \* the last MLJobIntelligenceSystem call and how it ended
    sp,                 \* MLSignalProcessor: its flags and those of its sub-models
    sp_call,            \* the last MLSignalProcessor call and what it returned
    \* UrgencyClassifier
    urgency,            \* self.is_trained and what of the vectorizer and the forest is fitted
    urgency_call,       \* the last train / predict call and how it ended
    \* HiringTrendPredictor
    predictor,          \* self.is_fitted and the three regressors
    predictor_call,     \* the last fit / predict_trends call and what it returned
    \* TechStackClassifier
    tsc,                \* self.is_trained and the categories self.models has a model for
    tsc_call,           \* the last train / extract_technologies_ml call and what it returned
    \* ProxyManager
    pm,                 \* working_proxies, failed_proxies and current_proxy_index
    pm_call,            \* the last get_next_proxy / mark_proxy_failed call and how it ended
    \* generate_ml_company_clusters
    ct_call             \* the last cluster it described: the cluster's statistics and type

clusterVars == <<k_requested, n_clusters, clusterer_fitted, cl_call>>
extractorVars == <<label_encoders, extractor_fitted, tfidf_vocabulary, scaler_stats, fx_call>>

scorerVars == <<scorer_fitted, sc_call>>

insightVars == <<ig, ig_call>>

runnerVars == <<rn, rn_call>>

signalVars == <<sp, sp_call>>

classifierVars == <<urgency, urgency_call>>

predictorVars == <<predictor, predictor_call>>

techStackVars == <<tsc, tsc_call>>

proxyVars == <<pm, pm_call>>

\* What a call on the insight generator leaves alone.
insightOthers == <<clusterVars, extractorVars, scorerVars, run_jobs, runnerVars, signalVars,
                   classifierVars, predictorVars,
        techStackVars, proxyVars, ct_call>>

\* What a call on the pipeline runner leaves alone.
runnerOthers == <<clusterVars, extractorVars, scorerVars, run_jobs, insightVars, signalVars,
                  classifierVars, predictorVars,
        techStackVars, proxyVars, ct_call>>

\* What a call on the signal processor leaves alone.
signalOthers == <<clusterVars, extractorVars, scorerVars, run_jobs, insightVars, runnerVars,
                  classifierVars, predictorVars,
        techStackVars, proxyVars, ct_call>>

vars == <<clusterVars, extractorVars, scorerVars, run_jobs, insightVars, runnerVars, signalVars,
          classifierVars, predictorVars,
        techStackVars, proxyVars, ct_call>>

-----------------------------------------------------------------------------
(* Bounds of the model. *)

MaxK == 4            \* largest cluster count a clusterer is constructed with
MaxPer == 1          \* postings per company in a list handed to the clusterer alone
MaxRows == 2         \* postings in a list handed to the feature extractor alone
MaxJobs == 5         \* postings of one company in the postings of a run
MaxUnknown == 1      \* postings without company in the postings of a run
MaxDays == 3         \* distinct scrape days in the postings of a run
MaxTech == 3         \* technologies listed by one posting
Delta == 40          \* distance (in 1/10000 of a point) of the sampled weighted scores
                     \* from the points 0, 60, 80 and 100
MaxAhead == 2        \* largest days_ahead asked of predict_trends
MaxClock == 2        \* the days (counted from the last scrape day) a forecast can be made on
MaxLevel == 2        \* largest magnitude of what a fitted regressor predicts for day 0
MaxScored == 12      \* companies score_opportunities scores in one run
MaxProxies == 3      \* proxies in the proxy_list of a ProxyManager
MaxDescriptions == 2 \* descriptions handed to extract_technologies_ml in one call

(* Program constants. *)

MinClusters == 2     \* the floor in max(2, len(companies))
DefaultClusters == 5 \* CompanyClusterer(n_clusters=5)
HighThreshold == 80  \* opportunity_score >= 80 is 'High'
MediumThreshold == 60 \* opportunity_score >= 60 is 'Medium'
MaxScore == 100      \* the upper clamp of a score
Hundredth == 100     \* round(opportunity_score, 2): reported scores are in 1/100 of a point
MinTrainingJobs == 10 \* len(jobs) < 10: no training
MinTrainingDays == 3 \* len(daily_df) < 3: no trend training
RuleHighThreshold == 70   \* rule-based score >= 70 is 'High'
RuleMediumThreshold == 40 \* rule-based score >= 40 is 'Medium'
JobPoints == 10      \* rule-based score: job_count * 10
UrgentPoints == 20   \* rule-based score: urgent_count * 20
TechPoints == 2      \* rule-based score: tech_count * 2
TopOpportunities == 15 \* opportunity_scores[:15]
TopRanked == 10        \* opportunities[:10] (ml_agent_runner.py)
HighConfidenceJobs == 50 \* 'high' confidence needs len(jobs) > 50
\* The resolution of an unrounded score: 1/10000 of a point.
RawPerPoint == Hundredth * Hundredth

-----------------------------------------------------------------------------
(* Postings. *)

Unknown == "Unknown"
RealCompanies == {"A", "B", "C"}
CompanyNames == RealCompanies \cup {Unknown}

\* A posting with the given company and default other fields.  A field the
\* posting lacks reads as the default job.get gives it.
MkJob(c) == [company |-> c, location |-> Unknown, department |-> Unknown,
             source |-> Unknown, desc |-> "plain", uhl |-> FALSE, tech |-> 0, day |-> 1]

Max2(a, b) == IF a >= b THEN a ELSE b
Min2(a, b) == IF a <= b THEN a ELSE b

\* n copies of job.
Repeat(job, n) == [i \in 1..n |-> job]

\* The companies that have at least one posting in jobs, 'Unknown' included.
CompaniesPosting(jobs) == {jobs[i].company : i \in 1..Len(jobs)}

\* company_data.keys(): postings are grouped by company, and a posting whose
\* company is 'Unknown' (or missing, which job.get defaults to 'Unknown') is skipped.
\* The keys are in order of first appearance.
GroupCompanies(jobs) ==
    LET first == {i \in 1..Len(jobs) :
                     /\ jobs[i].company # Unknown
                     /\ \A j \in 1..(i - 1) : jobs[j].company # jobs[i].company}
    IN [n \in 1..Cardinality(first) |->
           jobs[CHOOSE i \in first : Cardinality({j \in first : j < i}) = n - 1].company]

\* The postings of one company.
CompanyJobs(jobs, c) == SelectSeq(jobs, LAMBDA j : j.company = c)

\* Sum of f[i] over a sequence of numbers.
RECURSIVE SumSeq(_)
SumSeq(f) ==
    IF f = <<>> THEN 0
    ELSE IF Len(f) = 1 THEN f[1]
    ELSE SumSeq(SubSeq(f, 1, Len(f) \div 2)) + SumSeq(SubSeq(f, Len(f) \div 2 + 1, Len(f)))

\* The postings whose urgent_hiring_language is not empty.
UrgentCount(list) == Len(SelectSeq(list, LAMBDA j : j.uhl))

\* The technologies the postings list, counted with repetitions.
TechCount(list) == SumSeq([i \in 1..Len(list) |-> list[i].tech])

\* _extract_company_features, lines 44-91: what the feature vector of a company
\* is computed from: its postings, the urgent ones, the technologies listed
\* (all and distinct: the postings of a company list the same ones), the
\* departments and the length of the descriptions.  Two companies have the
\* same vector iff they agree on these.
FeaturePoint(jobs, c) ==
    LET mine == CompanyJobs(jobs, c)
    IN <<Len(mine), UrgentCount(mine), TechCount(mine),
         Cardinality({mine[i].tech : i \in 1..Len(mine)} \ {0}),
         Cardinality({mine[i].department : i \in 1..Len(mine)}),
         SumSeq([i \in 1..Len(mine) |-> Len(mine[i].desc)])>>

-----------------------------------------------------------------------------
(* JobFeatureExtractor (ml_models/feature_engineering.py). *)

\* The categorical columns, in the order of the features dict (lines 45-50).
Columns == <<"company", "location", "department", "source">>
ColumnSet == {Columns[i] : i \in 1..Len(Columns)}

\* The categorical values of the postings, in Python's string order (the order
\* LabelEncoder sorts classes_ in).
CatOrder == <<"A", "B", "Engineering", "NYC", Unknown, "wellfound">>
Rank(v) == CHOOSE i \in 1..Len(CatOrder) : CatOrder[i] = v

\* The value of a categorical column of a posting.
ColumnValue(job, col) ==
    CASE col = "company" -> job.company
      [] col = "location" -> job.location
      [] col = "department" -> job.department
      [] col = "source" -> job.source

ColumnValues(jobs, col) == {ColumnValue(jobs[i], col) : i \in 1..Len(jobs)}

\* LabelEncoder.transform of one value: its index in the sorted classes_.
Code(v, classes) == Cardinality({c \in classes : Rank(c) < Rank(v)})

\* Line 63: a value that is not among the known classes is replaced by 'Unknown'.
ReplaceUnseen(v, classes) == IF v \in classes THEN v ELSE Unknown

\* Line 64: LabelEncoder.transform raises ValueError on a label outside classes_.
TransformRaises(jobs, col, classes) ==
    \E v \in ColumnValues(jobs, col) : ReplaceUnseen(v, classes) \notin classes

\* A column has an encoder (line 57).
HasEncoder(col) == label_encoders[col] # {}

\* Some posting carries a value its column's encoder has not seen.
HasUnseen(jobs) ==
    \E col \in ColumnSet : HasEncoder(col) /\ ColumnValues(jobs, col) \ label_encoders[col] # {}

\* Every value the encoders had not seen got the code of 'Unknown'.
UnseenAsUnknown(jobs) ==
    \A col \in ColumnSet : \A v \in ColumnValues(jobs, col) :
        (HasEncoder(col) /\ v \notin label_encoders[col]) =>
            /\ Unknown \in label_encoders[col]
            /\ Code(ReplaceUnseen(v, label_encoders[col]), label_encoders[col])
                 = Code(Unknown, label_encoders[col])

\* The terms of the descriptions, in the order TfidfVectorizer numbers its
\* features in (sorted), and the terms a fit on the descriptions of `jobs` learns.
TermOrder == <<"plain", "python">>
Terms(jobs) == {jobs[i].desc : i \in 1..Len(jobs)}

\* Lines 98-108: the numbers taken from one description.
NumericalNames ==
    <<"desc_length", "word_count", "avg_word_length", "unique_words", "exclamation_count",
      "question_count", "caps_ratio", "requirements_count", "benefits_count">>

\* Lines 33-36: the vocabulary is fitted unless is_fitted.
TextVocabularyRefit(fitted, vocabulary, jobs) == Terms(jobs)

TextVocabulary(fitted, vocabulary, jobs) == IF ~fitted THEN Terms(jobs) ELSE vocabulary

\* Lines 114-117: the scaler is fitted unless is_fitted.
ScalerStats(fitted, stats, jobs) ==
    IF ~fitted THEN Terms(jobs) ELSE stats

\* Lines 128-132: the columns of a combined row for a vocabulary: the text
\* block, the categorical block, the numerical block.
Layout(vocabulary) ==
    SelectSeq(TermOrder, LAMBDA t : t \in vocabulary) \o Columns \o NumericalNames

\* The blocks a call on `jobs` fits when it gets to them.
TextFits == IF extractor_fitted THEN {} ELSE {"text"}
ScalerFits == IF extractor_fitted THEN {} ELSE {"numerical"}
EncoderFits == {col \in ColumnSet : ~HasEncoder(col)}

\* The blocks that were fitted before the call.
FittedBlocks ==
    {col \in ColumnSet : HasEncoder(col)}
        \cup (IF tfidf_vocabulary # {} THEN {"text"} ELSE {})
        \cup (IF scaler_stats # {} THEN {"numerical"} ELSE {})

NoExtraction == [op |-> "none", outcome |-> "none", rows |-> 0, unseen |-> FALSE,
                 after_fit |-> FALSE, as_unknown |-> FALSE, terms |-> {},
                 fitted |-> {}, refitted |-> {}, columns |-> <<>>]

\* The record of a call of `op` on `jobs` that fits the blocks `fits`.
Extraction(op, jobs, fits) ==
    [NoExtraction EXCEPT !.op = op, !.outcome = "returned", !.rows = Len(jobs),
                         !.unseen = HasUnseen(jobs),
                         !.after_fit = \A col \in ColumnSet : HasEncoder(col),
                         !.as_unknown = UnseenAsUnknown(jobs), !.terms = Terms(jobs),
                         !.fitted = fits, !.refitted = fits \cap FittedBlocks]

\* extract_text_features(jobs), lines 29-38: an unfitted TfidfVectorizer's
\* fit_transform of no document raises ValueError (empty vocabulary); a fitted
\* one transforms any list.
ExtractText(jobs) ==
    IF ~extractor_fitted /\ jobs = <<>>
    THEN /\ fx_call' = [Extraction("text", jobs, {}) EXCEPT !.outcome = "tfidf_raised"]
         /\ UNCHANGED tfidf_vocabulary
    ELSE /\ tfidf_vocabulary' = TextVocabulary(extractor_fitted, tfidf_vocabulary, jobs)
         /\ fx_call' = [Extraction("text", jobs, TextFits) EXCEPT
                            !.columns = SelectSeq(TermOrder, LAMBDA t : t \in tfidf_vocabulary')]

\* extract_numerical_features(jobs), lines 70-119: np.array([]) has one
\* dimension, which StandardScaler refuses with ValueError.
ExtractNumerical(jobs) ==
    IF jobs = <<>>
    THEN /\ fx_call' = [Extraction("numerical", jobs, {}) EXCEPT !.outcome = "scaler_raised"]
         /\ UNCHANGED scaler_stats
    ELSE /\ scaler_stats' = ScalerStats(extractor_fitted, scaler_stats, jobs)
         /\ fx_call' = [Extraction("numerical", jobs, ScalerFits) EXCEPT
                            !.columns = NumericalNames]

\* extract_categorical_features(jobs).  An empty list gives a DataFrame without
\* columns, so no column is encoded and np.hstack([]) raises ValueError.
ExtractCategorical(jobs) ==
    IF jobs = <<>>
    THEN /\ fx_call' = [Extraction("categorical", jobs, {}) EXCEPT !.outcome = "hstack_raised"]
         /\ UNCHANGED label_encoders
    ELSE IF \E col \in ColumnSet :
               HasEncoder(col) /\ TransformRaises(jobs, col, label_encoders[col])
    THEN /\ fx_call' = [Extraction("categorical", jobs, {}) EXCEPT
                            !.outcome = "transform_raised"]
         /\ UNCHANGED label_encoders
    ELSE /\ fx_call' = [Extraction("categorical", jobs, EncoderFits) EXCEPT
                            !.columns = Columns]
         /\ label_encoders' =
              [col \in ColumnSet |->
                  IF HasEncoder(col) THEN label_encoders[col]
                  ELSE ColumnValues(jobs, col)]

\* The postings handed to the feature extractor alone: each names its company
\* and its location or not, and carries a department, a source and a
\* description naming a technology, or none of them.
ExtractorPostings ==
    {[MkJob(c) EXCEPT !.location = l, !.department = ds[1], !.source = ds[2], !.desc = ds[3]] :
        c \in {"A", "B", Unknown}, l \in {"NYC", Unknown},
        ds \in {<<"Engineering", "wellfound", "python">>, <<Unknown, Unknown, "plain">>}}

ExtractorJobs == UNION {[1..n -> ExtractorPostings] : n \in 0..MaxRows}

\* The lists among them that differ in their descriptions only.
DescriptionJobs ==
    {jobs \in ExtractorJobs :
        \A i \in 1..Len(jobs) : jobs[i].company = "A" /\ jobs[i].location = Unknown}

ExtractorExtractText ==
    /\ \E jobs \in DescriptionJobs : ExtractText(jobs)
    /\ UNCHANGED <<label_encoders, extractor_fitted, scaler_stats>>

ExtractorExtractCategorical ==
    /\ \E jobs \in ExtractorJobs : ExtractCategorical(jobs)
    /\ UNCHANGED <<extractor_fitted, tfidf_vocabulary, scaler_stats>>

ExtractorExtractNumerical ==
    /\ \E jobs \in DescriptionJobs : ExtractNumerical(jobs)
    /\ UNCHANGED <<label_encoders, extractor_fitted, tfidf_vocabulary>>

\* extract_all_features(jobs), lines 121-141: the text features, the categorical
\* features, the numerical features, then is_fitted = True.  An exception
\* leaves is_fitted as it was, and what the blocks before it fitted stays
\* fitted: the categorical block can only raise on encoders it did not fit in
\* this call, after the text block ran.
ExtractAll(jobs) ==
    IF jobs = <<>>
    THEN /\ fx_call' = [Extraction("all", jobs, {}) EXCEPT
                            !.outcome = IF extractor_fitted THEN "hstack_raised"
                                        ELSE "tfidf_raised"]
         /\ UNCHANGED <<label_encoders, extractor_fitted, tfidf_vocabulary, scaler_stats>>
    ELSE IF \E col \in ColumnSet :
               HasEncoder(col) /\ TransformRaises(jobs, col, label_encoders[col])
    THEN /\ tfidf_vocabulary' = TextVocabulary(extractor_fitted, tfidf_vocabulary, jobs)
         /\ fx_call' = [Extraction("all", jobs, TextFits) EXCEPT
                            !.outcome = "transform_raised"]
         /\ UNCHANGED <<label_encoders, extractor_fitted, scaler_stats>>
    ELSE /\ tfidf_vocabulary' = TextVocabulary(extractor_fitted, tfidf_vocabulary, jobs)
         /\ label_encoders' =
              [col \in ColumnSet |->
                  IF HasEncoder(col) THEN label_encoders[col]
                  ELSE ColumnValues(jobs, col)]
         /\ scaler_stats' = ScalerStats(extractor_fitted, scaler_stats, jobs)
         /\ fx_call' = [Extraction("all", jobs, TextFits \cup EncoderFits \cup ScalerFits)
                            EXCEPT !.columns = Layout(tfidf_vocabulary')]
         /\ extractor_fitted' = TRUE

ExtractorExtractAll == \E jobs \in ExtractorJobs : ExtractAll(jobs)

\* The same two calls on lists that differ in their descriptions only.
BlocksExtractCategorical ==
    /\ \E jobs \in DescriptionJobs : ExtractCategorical(jobs)
    /\ UNCHANGED <<extractor_fitted, tfidf_vocabulary, scaler_stats>>

BlocksExtractAll == \E jobs \in DescriptionJobs : ExtractAll(jobs)

ExtractorObject ==
    /\ label_encoders = [col \in ColumnSet |-> {}]
    /\ extractor_fitted = FALSE
    /\ tfidf_vocabulary = {}
    /\ scaler_stats = {}
    /\ fx_call = NoExtraction

-----------------------------------------------------------------------------
(* CompanyClusterer (ml_models/clustering.py). *)

\* fit_predict, lines 100-103: the cluster count after the adjustment.
AdjustedClusters(nCompanies, current) ==
    IF nCompanies < current THEN Max2(MinClusters, nCompanies) ELSE current

\* Line 106: StandardScaler.fit_transform rejects the empty (one-dimensional)
\* feature array of a posting list without companies.
ScalerRaises(nCompanies) == nCompanies = 0

\* Line 112: KMeans.fit_predict rejects n_samples < n_clusters.
KMeansRaises(nCompanies, k) == nCompanies < k

\* Lines 109-112: the labels k-means gives the companies.  Companies with the
\* same feature vector get the same label; when there are no more distinct
\* vectors than clusters, each distinct vector is a cluster of its own;
\* otherwise the labelling is any assignment of the vectors to 0..k-1.  (PCA
\* keeps distinct vectors distinct.)
Labellings(jobs, companies, k) ==
    LET points == {FeaturePoint(jobs, companies[i]) : i \in 1..Len(companies)}
        fits == Cardinality(points) <= k
    IN {[i \in 1..Len(companies) |-> g[FeaturePoint(jobs, companies[i])]] :
            g \in {h \in [points -> 0..(k - 1)] :
                      fits => \A p, q \in points : h[p] = h[q] => p = q}}

\* Lines 115-118: silhouette_score is called when there is more than one
\* label, and rejects a labelling that has as many labels as points (sklearn
\* wants 2 <= labels <= points - 1).
SilhouetteRaises(labels) ==
    LET n_labels == Cardinality({labels[i] : i \in 1..Len(labels)})
    IN n_labels > 1 /\ ~(n_labels < Len(labels))

\* A mapping that loses the last company of the list.
ZipClustersDropLast(companies, labels) ==
    [c \in {companies[i] : i \in 1..(Len(companies) - 1)} |->
        labels[CHOOSE i \in 1..Len(companies) : companies[i] = c]]

\* dict(zip(companies, cluster_labels)): companies[i] -> labels[i].
ZipClusters(companies, labels) ==
    [c \in {companies[i] : i \in 1..Len(companies)} |->
        labels[CHOOSE i \in 1..Len(companies) : companies[i] = c]]

NoCall == [posted |-> {}, outcome |-> "none", k_before |-> 0, k_used |-> 0,
           result |-> <<>>]

\* One call of fit_predict(jobs).
FitPredict(jobs) ==
    LET companies == GroupCompanies(jobs)
        k == AdjustedClusters(Len(companies), n_clusters)
    IN /\ n_clusters' = k
       /\ IF ScalerRaises(Len(companies))
          THEN /\ clusterer_fitted' = clusterer_fitted
               /\ cl_call' = [posted |-> CompaniesPosting(jobs), outcome |-> "scaler_raised",
                              k_before |-> n_clusters, k_used |-> k, result |-> <<>>]
          ELSE IF KMeansRaises(Len(companies), k)
          THEN /\ clusterer_fitted' = clusterer_fitted
               /\ cl_call' = [posted |-> CompaniesPosting(jobs), outcome |-> "kmeans_raised",
                              k_before |-> n_clusters, k_used |-> k, result |-> <<>>]
          ELSE \E labels \in Labellings(jobs, companies, k) :
               IF SilhouetteRaises(labels)
               THEN /\ clusterer_fitted' = clusterer_fitted
                    /\ cl_call' = [posted |-> CompaniesPosting(jobs),
                                   outcome |-> "silhouette_raised",
                                   k_before |-> n_clusters, k_used |-> k, result |-> <<>>]
               ELSE /\ clusterer_fitted' = TRUE
                    /\ cl_call' = [posted |-> CompaniesPosting(jobs), outcome |-> "returned",
                                   k_before |-> n_clusters, k_used |-> k,
                                   result |-> ZipClusters(companies, labels)]

\* The posting lists handed to the clusterer: up to MaxPer postings of each
\* company, all alike or each company's listing its own number of technologies.
ClusterJobs ==
    {Repeat(MkJob("A"), f["A"]) \o Repeat(MkJob(Unknown), f[Unknown])
        \o Repeat([MkJob("B") EXCEPT !.tech = IF alike THEN 0 ELSE 1], f["B"])
        \o Repeat([MkJob("C") EXCEPT !.tech = IF alike THEN 0 ELSE 2], f["C"]) :
     f \in [CompanyNames -> 0..MaxPer], alike \in BOOLEAN}

ClusterFitPredict ==
    /\ \E jobs \in ClusterJobs : FitPredict(jobs)
    /\ UNCHANGED k_requested

\* CompanyClusterer(n_clusters=k).
ClusterObject(k) ==
    /\ k_requested = k
    /\ n_clusters = k
    /\ clusterer_fitted = FALSE
    /\ cl_call = NoCall

-----------------------------------------------------------------------------
(* OpportunityScorer (ml_models/clustering.py). *)

\* Lines 349-350: np.dot(features_scaled, self.feature_weights) * 100 is a real
\* number fixed by the fitted scaler, the learned weights and the company's
\* postings.  It is drawn, in 1/10000 of a point, from values on either side of
\* the clamps and of the priority thresholds.
RawScores ==
    {a * RawPerPoint + d : a \in {0, MediumThreshold, HighThreshold, MaxScore},
                           d \in {0 - Delta, Delta}}

\* The weighted score left as it is, without the clamp of line 353.
ClampScoreUnclamped(raw) == raw

\* Line 353: max(0, min(100, opportunity_score * 100)).
ClampScore(raw) == Max2(0, Min2(MaxScore * RawPerPoint, raw))

\* Lines 356-361: the priority level of a clamped, unrounded score.
PriorityLevel(score) ==
    IF score >= HighThreshold * RawPerPoint THEN "High"
    ELSE IF score >= MediumThreshold * RawPerPoint THEN "Medium"
    ELSE "Low"

\* Line 365: round(opportunity_score, 2), in 1/100 of a point.  A tie goes to
\* the even neighbour.
Round2(score) ==
    LET q == score \div Hundredth
        r == score % Hundredth
    IN IF 2 * r < Hundredth THEN q
       ELSE IF 2 * r > Hundredth THEN q + 1
       ELSE IF q % 2 = 0 THEN q ELSE q + 1

\* Lines 344-374: the record of one company.  opportunity_score is the reported
\* (rounded) score in 1/100 of a point.
ScoredRecord(jobs, c, raw) ==
    LET score == ClampScore(raw)
    IN [company |-> c,
        opportunity_score |-> Round2(score),
        priority_level |-> PriorityLevel(score),
        job_count |-> Len(CompanyJobs(jobs, c))]

\* list.sort(key=opportunity_score, reverse=True): a stable sort, highest first.
RECURSIVE InsertByScore(_, _)
InsertByScore(sorted, rec) ==
    IF sorted = <<>> THEN <<rec>>
    ELSE IF Head(sorted).opportunity_score >= rec.opportunity_score
         THEN <<Head(sorted)>> \o InsertByScore(Tail(sorted), rec)
         ELSE <<rec>> \o sorted

\* The records in the order the companies first appear, as the list is before
\* line 377.
KeepOrder(recs) == recs

RECURSIVE SortByScore(_)
SortByScore(recs) ==
    IF recs = <<>> THEN <<>>
    ELSE InsertByScore(SortByScore(SubSeq(recs, 1, Len(recs) - 1)), recs[Len(recs)])

\* score_opportunities(jobs) of a fitted scorer; rawOf[c] is the weighted score
\* of company c.
ScoreOpportunities(jobs, rawOf) ==
    LET companies == GroupCompanies(jobs)
    IN SortByScore([i \in 1..Len(companies) |->
                       ScoredRecord(jobs, companies[i], rawOf[companies[i]])])

\* fit(jobs), lines 286-289: StandardScaler.fit_transform rejects the empty
\* feature matrix of a posting list without companies.
ScorerFitRaises(jobs) == GroupCompanies(jobs) = <<>>

NoScoring == [op |-> "none", outcome |-> "none", result |-> <<>>, raw |-> <<>>]

ScorerFit(jobs) ==
    IF ScorerFitRaises(jobs)
    THEN /\ sc_call' = [NoScoring EXCEPT !.op = "fit", !.outcome = "raised"]
         /\ UNCHANGED scorer_fitted
    ELSE /\ sc_call' = [NoScoring EXCEPT !.op = "fit", !.outcome = "returned"]
         /\ scorer_fitted' = TRUE

ScorerScore(jobs) ==
    /\ UNCHANGED scorer_fitted
    /\ IF ~scorer_fitted
       THEN sc_call' = [NoScoring EXCEPT !.op = "score", !.outcome = "not_fitted"]
       ELSE \E rawOf \in [CompaniesPosting(jobs) \ {Unknown} -> RawScores] :
               sc_call' = [op |-> "score", outcome |-> "returned",
                           result |-> ScoreOpportunities(jobs, rawOf), raw |-> rawOf]

ScorerObject ==
    /\ scorer_fitted = FALSE
    /\ sc_call = NoScoring

-----------------------------------------------------------------------------
(* The postings of an orchestrator run. *)

\* Lines 85-89 of signals.py: the urgent phrases extract_urgent_hiring_language
\* finds in a description.
ExtractUrgent(desc) ==
    CASE desc = "urgent hire asap" -> {"urgent", "asap"}
      [] desc = "urgent" -> {"urgent"}
      [] OTHER -> {}

\* Lines 5-55 of signals.py: the technology keywords extract_technology_adoption
\* finds in a description.
ExtractTechnology(desc) == IF desc = "python" THEN {"Python"} ELSE {}

\* A processed posting: its urgent_hiring_language field holds what the
\* rule-based extractor found in its description.
Posting(c, desc, tech, day) ==
    [MkJob(c) EXCEPT !.desc = desc, !.uhl = (ExtractUrgent(desc) # {}),
                     !.tech = tech, !.day = day]

\* Every posting of a list gets a scrape day, cycling through `days` days.
WithDays(list, days) == [i \in 1..Len(list) |-> [list[i] EXCEPT !.day = ((i - 1) % days) + 1]]

\* The postings of one company: n postings, the first u urgent, each listing t
\* technologies.
CompanyPostings(c, n, u, t) ==
    Repeat(Posting(c, "urgent", t, 1), u) \o Repeat(Posting(c, "plain", t, 1), n - u)

\* What company B posts beside company A: nothing, the same as A, or as many
\* postings as a company can have, all plain or all urgent.
BKinds == {"none", "same", "plain", "urgent"}

\* nA postings of company A (the first uA urgent, each listing t technologies),
\* the postings of company B, nU postings without company, scraped on `days`
\* distinct days (as far as there are postings).
Batch(nA, uA, t, bKind, nU, days) ==
    WithDays(CompanyPostings("A", nA, uA, t)
             \o (CASE bKind = "none" -> <<>>
                   [] bKind = "same" -> CompanyPostings("B", nA, uA, t)
                   [] bKind = "plain" -> CompanyPostings("B", MaxJobs, 0, 0)
                   [] bKind = "urgent" ->
                        Repeat(Posting("B", "urgent hire asap", 0, 1), MaxJobs))
             \o Repeat(Posting(Unknown, "plain", 0, 1), nU),
             days)

RunJobs ==
    {Batch(nA, Min2(uA, nA), t, bKind, nU, days) :
        nA \in 0..MaxJobs, uA \in 0..MaxJobs, t \in {0, MaxTech}, bKind \in BKinds,
        nU \in 0..MaxUnknown, days \in 1..MaxDays}

\* Runs of about as many postings as the 'high' confidence of a report asks
\* for: two companies posting alike, with or without a posting without company,
\* scraped on one day.
LargeRuns ==
    {Batch(h, 0, 0, "same", nU, 1) :
        h \in {HighConfidenceJobs \div 2 - 1, HighConfidenceJobs \div 2}, nU \in 0..1}

\* Runs whose descriptions name a technology: company A's do, company B's do
\* not, and none or two of B's are urgent.
TechRuns ==
    {Repeat(Posting("A", "python", 1, 1), MaxJobs) \o CompanyPostings("B", MaxJobs, u, 0) :
        u \in {0, 2}}

\* A posting without scraped_date.
NoDate == 0 - 1

\* _prepare_time_series_data(jobs) run on day `today`, lines 40-50: a posting
\* whose scraped_date has no '-' or does not parse gets datetime.now().
PrepareTimeSeries(list, today) ==
    [i \in 1..Len(list) |->
        IF list[i].day = NoDate THEN [list[i] EXCEPT !.day = today] ELSE list[i]]

\* len(daily_df): the distinct scrape days.
DistinctDays(list) == Cardinality({list[i].day : i \in 1..Len(list)})

-----------------------------------------------------------------------------
(* HiringTrendPredictor.fit (ml_models/predictive.py). *)

\* fit without the check of line 122 on the number of days.
PredictorFitNoDayCheck(list) ==
    IF Len(list) < MinTrainingJobs THEN "error"
    ELSE "raised"

\* fit(jobs): "error" below 10 postings or 3 days.  Otherwise
\* _create_time_features groups the daily frame by 'company', a column
\* _aggregate_daily_data renamed to 'job_volume': pandas raises KeyError
\* before any regressor is trained, and is_fitted is not set.
PredictorFit(list) ==
    IF Len(list) < MinTrainingJobs THEN "error"
    ELSE IF DistinctDays(list) < MinTrainingDays THEN "error"
    ELSE "raised"

\* What a regressor predicts: a number, or NaN.
Num(v) == [nan |-> FALSE, v |-> v]
NaN == [nan |-> TRUE, v |-> 0]

\* A fitted scaler and regressor, lines 204-205: of the features of lines
\* 191-200 only the calendar ones vary, so the prediction is a function of the
\* date, here a level and a slope per day.
Regressors ==
    {[base |-> b, slope |-> sl] : b \in {Num(0 - MaxLevel), Num(MaxLevel), NaN}, sl \in {0, 1}}

ModelPredict(model, date) ==
    IF model.base.nan THEN NaN ELSE Num(model.base.v + model.slope * date)

\* The prediction appended as it is, without the max of line 206.
ClampPredictionRaw(pred) == pred.v

\* Line 206: max(0, pred).  Python's max keeps its first argument unless a later
\* one compares greater, and NaN compares greater than nothing: max(0, nan) is 0.
ClampPrediction(pred) == IF pred.nan THEN 0 ELSE Max2(0, pred.v)

\* HiringTrendPredictor(): nothing fitted.
NewPredictor == [is_fitted |-> FALSE, volume |-> [base |-> Num(0), slope |-> 0],
                 urgency |-> [base |-> Num(0), slope |-> 0],
                 tech_adoption |-> [base |-> Num(0), slope |-> 0]]

\* The predictors predict_trends can be called on: the new one, and one whose
\* three regressors are fitted and whose is_fitted is set.
Predictors ==
    {NewPredictor} \cup
    {[is_fitted |-> TRUE, volume |-> v, urgency |-> u, tech_adoption |-> t] :
        v \in Regressors, u \in Regressors, t \in Regressors}

\* predict_trends(days_ahead) called on day `today` (datetime.now(), line 179):
\* the dates of the days_ahead days after today and, for each, the clamped
\* prediction of each regressor.
PredictTrends(m, days_ahead, today) ==
    LET future_dates == [i \in 1..days_ahead |-> today + i]
        clamped(model) == [i \in 1..days_ahead |->
                              ClampPrediction(ModelPredict(model, future_dates[i]))]
    IN IF ~m.is_fitted
       THEN [outcome |-> "raised", dates |-> <<>>, volume |-> <<>>, urgency |-> <<>>,
             tech_adoption |-> <<>>]
       ELSE [outcome |-> "returned", dates |-> future_dates, volume |-> clamped(m.volume),
             urgency |-> clamped(m.urgency), tech_adoption |-> clamped(m.tech_adoption)]

NoPredictorCall == [op |-> "none", outcome |-> "none", jobs |-> <<>>, n |-> 0, days |-> 0,
                    days_ahead |-> 0, today |-> 0, before |-> NewPredictor,
                    dates |-> <<>>, volume |-> <<>>, urgency |-> <<>>, tech_adoption |-> <<>>]

PredictorObject ==
    /\ predictor = NewPredictor
    /\ predictor_call = NoPredictorCall

-----------------------------------------------------------------------------
(* UrgencyClassifier and TechStackClassifier (ml_models/text_classifier.py). *)

\* train_test_split(test_size=0.2, stratify=y) on n samples of which pos are of
\* class 1, both classes present: sklearn raises ValueError when a class has one
\* member, or when the test part, ceil(0.2 n) samples, is smaller than the two
\* classes.
SplitRaises(n, pos) == Min2(pos, n - pos) < 2 \/ (n + 4) \div 5 < 2

\* cross_val_score(cv=5): StratifiedKFold raises ValueError when no class has 5
\* members.
CrossValRaises(n, pos) == Max2(pos, n - pos) < 5

\* train without the early return of line 47: identical labels go on to the
\* split like any others.
UrgencyTrainNoGuard(list) ==
    LET n == Len(list)
        pos == UrgentCount(list)
    IN IF SplitRaises(n, pos) \/ CrossValRaises(n, pos) THEN "raised"
       ELSE "trained"

\* UrgencyClassifier.train(jobs): "skipped" (the early return of line 47, which
\* leaves is_trained alone), "raised", or "trained".
UrgencyTrain(list) ==
    LET n == Len(list)
        pos == UrgentCount(list)
    IN IF pos = 0 \/ pos = n THEN "skipped"
       ELSE IF SplitRaises(n, pos) \/ CrossValRaises(n, pos) THEN "raised"
       ELSE "trained"

\* UrgencyClassifier.train(jobs) on the classifier itself: the classifier after
\* the call and how the call ended.  The vectorizer is fitted at line 53 and the
\* forest at line 62, before the calls that can raise (the split of line 57
\* comes between them); is_trained is set at line 71.
UCTrain(m, list) ==
    LET out == UrgencyTrain(list)
        split == SplitRaises(Len(list), UrgentCount(list))
    IN [m |-> CASE out = "skipped" -> m
                [] out = "raised" ->
                     [m EXCEPT !.vectorizer_fitted = TRUE,
                               !.model_fitted = (m.model_fitted \/ ~split)]
                [] out = "trained" ->
                     [is_trained |-> TRUE, vectorizer_fitted |-> TRUE, model_fitted |-> TRUE],
        outcome |-> out]

NoClassifierCall == [op |-> "none", outcome |-> "none", n |-> 0, pos |-> 0,
                     before |-> [is_trained |-> FALSE, vectorizer_fitted |-> FALSE,
                                 model_fitted |-> FALSE]]

\* UrgencyClassifier(): nothing fitted.
ClassifierObject ==
    /\ urgency = [is_trained |-> FALSE, vectorizer_fitted |-> FALSE, model_fitted |-> FALSE]
    /\ urgency_call = NoClassifierCall

\* The postings that list a technology; all technologies of the postings are
\* of one category, so the other categories have one class and are skipped.
TechPostings(list) == Len(SelectSeq(list, LAMBDA j : j.tech > 0))

\* TechStackClassifier.train(jobs): "raised" by a category's split, or
\* "trained" (is_trained is set whatever number of categories got a model).
TechTrain(list) ==
    LET n == Len(list)
        pos == TechPostings(list)
    IN IF pos = 0 \/ pos = n THEN "trained"
       ELSE IF SplitRaises(n, pos) THEN "raised"
       ELSE "trained"

-----------------------------------------------------------------------------
(* TechStackClassifier (ml_models/text_classifier.py). *)

\* self.tech_categories, lines 117-124.
TechCategories ==
    <<"Programming Languages", "Web Frameworks", "Cloud Platforms", "Databases",
      "DevOps Tools", "AI/ML Libraries">>

CategorySet == {TechCategories[i] : i \in 1..Len(TechCategories)}

\* tech_mapping, lines 218-225.
TechMapping ==
    [c \in CategorySet |->
        CASE c = "Programming Languages" -> <<"Python", "JavaScript", "Java", "TypeScript", "Go">>
          [] c = "Web Frameworks" -> <<"React", "Node.js", "Angular", "Vue", "Django">>
          [] c = "Cloud Platforms" -> <<"AWS", "Azure", "Docker", "Kubernetes">>
          [] c = "Databases" -> <<"PostgreSQL", "MongoDB", "Redis", "MySQL">>
          [] c = "DevOps Tools" -> <<"Jenkins", "GitLab CI", "Terraform">>
          [] c = "AI/ML Libraries" -> <<"TensorFlow", "PyTorch", "Scikit-learn">>]

\* The whole list of a category.
WholeCategory(c) == TechMapping[c]

\* Line 233: tech_mapping[category][:2].
TopOfCategory(c) == SubSeq(TechMapping[c], 1, Min2(2, Len(TechMapping[c])))

\* Lines 229-233 for one description: the categories of self.models in the
\* order of the dict, each adding its top technologies when its probability is
\* above the threshold.
RECURSIVE JobTechs(_, _, _)
JobTechs(models, prediction, threshold) ==
    IF models = <<>> THEN <<>>
    ELSE (IF prediction[Head(models)] > threshold THEN TopOfCategory(Head(models)) ELSE <<>>)
         \o JobTechs(Tail(models), prediction, threshold)

\* extract_technologies_ml(descriptions, threshold); predictions[i] is what
\* predict_tech_categories gives description i: a probability (in percent) for
\* every category of self.models.  Untrained, predict_tech_categories raises
\* (line 199).
ExtractTechnologiesML(m, predictions, threshold) ==
    IF ~m.is_trained THEN [outcome |-> "raised", result |-> <<>>]
    ELSE [outcome |-> "returned",
          result |-> [i \in 1..Len(predictions) |->
                         JobTechs(m.models, predictions[i], threshold)]]

\* train(jobs), lines 157-194: `diverse` are the categories whose labels have
\* both classes and `raising` the category whose split raises ("none": no
\* split raises).  A category gets its model at line 186, in the order of
\* tech_categories; a dict keeps a key it already has in its place.
TSCTrain(m, diverse, raising) ==
    LET index(c) == CHOOSE i \in 1..Len(TechCategories) : TechCategories[i] = c
        reached(c) == raising = "none" \/ index(c) < index(raising)
        has(c) == \E i \in 1..Len(m.models) : m.models[i] = c
    IN [is_trained |-> m.is_trained \/ raising = "none",
        models |-> m.models \o SelectSeq(TechCategories,
                                         LAMBDA c : c \in diverse /\ reached(c) /\ ~has(c))]

NoTechStackCall == [op |-> "none", outcome |-> "none", threshold |-> 0,
                    predictions |-> <<>>, result |-> <<>>,
                    before |-> [is_trained |-> FALSE, models |-> <<>>]]

\* TechStackClassifier(): no model, not trained.
TechStackObject ==
    /\ tsc = [is_trained |-> FALSE, models |-> <<>>]
    /\ tsc_call = NoTechStackCall

-----------------------------------------------------------------------------
(* ProxyManager (agent1_data_collector/proxy_manager.py). *)

\* self.proxy_list.
ProxyList == [i \in 1..MaxProxies |-> i]

\* get_next_proxy() returned None.
None == 0

\* get_next_proxy(), lines 80-87, under the lock: the manager after the call,
\* and the proxy returned or the IndexError of line 84.
GetNextProxy(m) ==
    IF m.working_proxies = <<>> THEN [m |-> m, outcome |-> "returned", proxy |-> None]
    ELSE IF m.current_proxy_index >= Len(m.working_proxies)
    THEN [m |-> m, outcome |-> "raised", proxy |-> None]
    ELSE [m |-> [m EXCEPT !.current_proxy_index =
                              (m.current_proxy_index + 1) % Len(m.working_proxies)],
          outcome |-> "returned",
          proxy |-> m.working_proxies[m.current_proxy_index + 1]]

\* mark_proxy_failed(proxy), lines 98-102, under the lock.
MarkProxyFailed(m, p) ==
    IF \E i \in 1..Len(m.working_proxies) : m.working_proxies[i] = p
    THEN [m EXCEPT !.working_proxies = SelectSeq(m.working_proxies, LAMBDA q : q # p),
                   !.failed_proxies = m.failed_proxies \cup {p}]
    ELSE m

NoProxyCall == [op |-> "none", outcome |-> "none", proxy |-> None]

\* ProxyManager(proxy_list, validate_on_init=False): no proxy validated yet.
ProxyObject ==
    /\ pm = [working_proxies |-> <<>>, failed_proxies |-> {}, current_proxy_index |-> 0]
    /\ pm_call = NoProxyCall

-----------------------------------------------------------------------------
(* The description of one cluster: get_cluster_characteristics
   (ml_models/clustering.py) and generate_ml_company_clusters
   (agent3_insight_generator/ml_insights.py). *)

\* job.get('technology_adoption', []): a posting lists its company's
\* technologies, numbered from 1 for company B and from MaxTech + 1 otherwise.
TechnologiesOf(job) ==
    [i \in 1..job.tech |-> IF job.company = "B" THEN i ELSE MaxTech + i]

\* Lines 153-155 of clustering.py: all_tech.extend(...) over the postings.
RECURSIVE AllTech(_)
AllTech(jobs) ==
    IF jobs = <<>> THEN <<>> ELSE TechnologiesOf(Head(jobs)) \o AllTech(Tail(jobs))

\* Lines 156-157: pd.Series(all_tech).value_counts().head(5).to_dict(), as the
\* sequence of its keys: the technologies by falling count, those of equal
\* count in the order of their first mention.
TopTechnologies(all_tech) ==
    LET techs == {all_tech[i] : i \in 1..Len(all_tech)}
        count(t) == Cardinality({i \in 1..Len(all_tech) : all_tech[i] = t})
        first(t) == CHOOSE i \in 1..Len(all_tech) :
                        all_tech[i] = t /\ \A j \in 1..(i - 1) : all_tech[j] # t
        before(t) == {u \in techs : \/ count(u) > count(t)
                                    \/ count(u) = count(t) /\ first(u) < first(t)}
    IN [n \in 1..Min2(5, Cardinality(techs)) |->
           CHOOSE t \in techs : Cardinality(before(t)) = n - 1]

\* get_cluster_characteristics, lines 136-168 of clustering.py, for one cluster
\* of `companies` companies with the postings cluster_jobs: the two averages as
\* fractions.
ClusterCharacteristics(companies, cluster_jobs) ==
    [companies |-> companies,
     all_tech |-> AllTech(cluster_jobs),
     total_jobs |-> Len(cluster_jobs),
     urgent_jobs |-> UrgentCount(cluster_jobs),
     top_technologies |-> TopTechnologies(AllTech(cluster_jobs))]

\* A cluster type: f"{dominant_tech} Specialists", or one of the fixed names.
Specialists(t) == <<t, "Specialists">>
Named(name) == <<0, name>>

\* The type with the volume asked before the urgency.
ClusterTypeVolumeFirst(chars) ==
    IF chars.total_jobs > 3 * chars.companies THEN Named("Volume Hirers")
    ELSE IF 2 * chars.urgent_jobs > chars.total_jobs THEN Named("High-Urgency Hirers")
    ELSE IF chars.top_technologies # <<>> THEN Specialists(chars.top_technologies[1])
    ELSE Named("Standard Hirers")

\* Lines 115-123 of ml_insights.py: urgency_ratio > 0.5 is
\* urgent_jobs / total_jobs > 0.5 and avg_volume > 3 is
\* total_jobs / companies_in_cluster > 3.
ClusterType(chars) ==
    IF 2 * chars.urgent_jobs > chars.total_jobs THEN Named("High-Urgency Hirers")
    ELSE IF chars.total_jobs > 3 * chars.companies THEN Named("Volume Hirers")
    ELSE IF chars.top_technologies # <<>> THEN Specialists(chars.top_technologies[1])
    ELSE Named("Standard Hirers")

\* No cluster described yet.
NoClusterTyped ==
    ct_call = [op |-> "none", type |-> Named("none"),
               chars |-> ClusterCharacteristics(0, <<>>)]

-----------------------------------------------------------------------------
(* MLInsightGenerator (agent3_insight_generator/ml_insights.py). *)

\* _generate_rule_based_opportunities, line 337.
RuleScore(list, c) ==
    LET mine == CompanyJobs(list, c)
    IN Min2(MaxScore, Len(mine) * JobPoints + UrgentCount(mine) * UrgentPoints
                        + TechCount(mine) * TechPoints)

\* Lines 339-344.
RulePriority(score) ==
    IF score >= RuleHighThreshold THEN "High"
    ELSE IF score >= RuleMediumThreshold THEN "Medium"
    ELSE "Low"

\* Lines 346-352; the score is an integer number of points, written here in
\* 1/100 of a point like the rounded scores of the ML scorer.
RuleRecord(list, c) ==
    [company |-> c,
     opportunity_score |-> RuleScore(list, c) * Hundredth,
     priority_level |-> RulePriority(RuleScore(list, c)),
     job_count |-> Len(CompanyJobs(list, c)),
     scoring_method |-> "rule_based"]

\* _generate_rule_based_opportunities(jobs).
RuleBasedOpportunities(list) ==
    LET companies == GroupCompanies(list)
    IN SortByScore([i \in 1..Len(companies) |-> RuleRecord(list, companies[i])])

\* CompanyClusterer.fit_predict as the generator's sub-model: the flags after
\* the call, whether it raised, and whether it fitted k-means (line 112) on a
\* clusterer that was fitted already.
SubFitPredict(m, list) ==
    LET Result(nc, k, raised) ==
            [m |-> [m EXCEPT !.n_clusters = k,
                             !.clusterer_fitted = (m.clusterer_fitted \/ ~raised)],
             raised |-> raised,
             refit |-> m.clusterer_fitted /\ ~ScalerRaises(nc) /\ ~KMeansRaises(nc, k)]
        Clustered(companies, nc, k) ==
            Result(nc, k, \/ ScalerRaises(nc)
                          \/ KMeansRaises(nc, k)
                          \/ \E labels \in Labellings(list, companies, k) :
                                 SilhouetteRaises(labels))
        Grouped(companies, nc) == Clustered(companies, nc, AdjustedClusters(nc, m.n_clusters))
        Of(companies) == Grouped(companies, Len(companies))
    IN Of(GroupCompanies(list))

\* train_ml_models(jobs): the generator after the call and the status returned.
IGTrain(m, list) ==
    IF ~m.use_ml \/ Len(list) < MinTrainingJobs
    THEN [m |-> m, status |-> "skipped", refitted |-> {}]
    ELSE LET failed(mm, re) == [m |-> [mm EXCEPT !.use_ml = FALSE], status |-> "failed",
                                refitted |-> re]
             After(cl) ==
                 LET again == IF cl.refit THEN {"company_clusterer"} ELSE {}
                     fitted == [cl.m EXCEPT !.scorer_fitted = TRUE]
                     both == again \cup (IF m.scorer_fitted THEN {"opportunity_scorer"}
                                         ELSE {})
                 IN IF cl.raised THEN failed(cl.m, again)
                    ELSE IF ScorerFitRaises(list) THEN failed(cl.m, again)
                    ELSE IF PredictorFit(list) = "raised" THEN failed(fitted, both)
                    ELSE [m |-> [fitted EXCEPT !.available = TRUE], status |-> "trained",
                          refitted |-> both]
         IN After(SubFitPredict(m, list))

\* generate_ml_company_clusters(jobs): the clustering method of the result.
IGClusters(m, list) ==
    IF ~m.available THEN [m |-> m, method |-> "rule_based", refitted |-> {}]
    ELSE LET After(cl) ==
                 [m |-> cl.m, method |-> IF cl.raised THEN "rule_based" ELSE "ml_kmeans",
                  refitted |-> IF cl.refit THEN {"company_clusterer"} ELSE {}]
         IN After(SubFitPredict(m, list))

\* Lines 159-177: the scorer's records, each with its scoring method.
EnhancedOpportunities(opportunities) ==
    [i \in 1..Len(opportunities) |->
        [company |-> opportunities[i].company,
         opportunity_score |-> opportunities[i].opportunity_score,
         priority_level |-> opportunities[i].priority_level,
         job_count |-> opportunities[i].job_count,
         scoring_method |-> "ml_ensemble"]]

\* generate_ml_opportunity_scores(jobs): the records returned, and the
\* sub-models that raised their must-be-fitted error.
IGOpportunities(m, list, rawOf) ==
    IF ~m.available THEN [records |-> RuleBasedOpportunities(list), not_fitted |-> {}]
    ELSE IF ~m.scorer_fitted
         THEN [records |-> RuleBasedOpportunities(list), not_fitted |-> {"opportunity_scorer"}]
         ELSE [records |-> EnhancedOpportunities(ScoreOpportunities(list, rawOf)),
               not_fitted |-> {}]

\* generate_ml_trend_predictions(jobs): predict_trends raises its must-be-fitted
\* error on an unfitted predictor, which the generator catches.
IGTrends(m, list) ==
    IF ~m.available THEN [method |-> "rule_based", not_fitted |-> {}]
    ELSE IF ~m.predictor_fitted
         THEN [method |-> "rule_based", not_fitted |-> {"trend_predictor"}]
         ELSE [method |-> "ml_time_series", not_fitted |-> {}]

FirstN(seq, n) == SubSeq(seq, 1, Min2(n, Len(seq)))

NoInsight == [op |-> "none", outcome |-> "none", status |-> "none",
              rankings |-> <<>>, has_rankings |-> FALSE, trends |-> "none",
              clustering |-> "none", confidence |-> "none", high_priority |-> 0,
              not_fitted |-> {}, refitted |-> {}, lost |-> {}]

\* The sub-models whose fitted flag a call turned from true to false.
LostFlags(before, after) ==
    {f \in {"clusterer_fitted", "scorer_fitted", "predictor_fitted"} : before[f] /\ ~after[f]}

\* generate_comprehensive_insights_ml(jobs): the generator after the call and the
\* report returned.
IGComprehensive(m, list, rawOf) ==
    LET Report(tr, cl, op, td) ==
            [m |-> cl.m,
             call |-> [op |-> "comprehensive", outcome |-> "returned", status |-> tr.status,
                       rankings |-> FirstN(op.records, TopOpportunities),
                       has_rankings |-> TRUE,
                       trends |-> td.method,
                       clustering |-> cl.method,
                       confidence |-> IF cl.m.available /\ Len(list) > HighConfidenceJobs
                                      THEN "high" ELSE "medium",
                       high_priority |-> Cardinality({i \in 1..Len(op.records) :
                                                        op.records[i].priority_level = "High"}),
                       not_fitted |-> op.not_fitted \cup td.not_fitted,
                       refitted |-> tr.refitted \cup cl.refitted,
                       lost |-> LostFlags(m, cl.m)]]
        \* Lines 389-391.
        Insights(tr, cl) ==
            Report(tr, cl, IGOpportunities(cl.m, list, rawOf), IGTrends(cl.m, list))
        \* Lines 385-386.
        Trained(tr) == Insights(tr, IGClusters(tr.m, list))
    IN Trained(IF m.use_ml /\ ~m.available THEN IGTrain(m, list)
               ELSE [m |-> m, status |-> "none", refitted |-> {}])

\* Weighted scores a point below 0, just below the 'High' threshold and a point
\* above 100.
RunRawScores ==
    {0 - RawPerPoint - Delta, HighThreshold * RawPerPoint - Delta,
     MaxScore * RawPerPoint + RawPerPoint + Delta}

\* The weighted scores a fitted scorer gives the companies of the run.
RawChoices(m, list) ==
    IF m.available /\ m.scorer_fitted
    THEN [CompaniesPosting(list) \ {Unknown} -> RunRawScores]
    ELSE {[c \in CompaniesPosting(list) \ {Unknown} |-> 0]}

IGTrainCall ==
    \E r \in {IGTrain(ig, run_jobs)} :
       /\ ig' = r.m
       /\ ig_call' = [NoInsight EXCEPT !.op = "train", !.outcome = "returned",
                                       !.status = r.status, !.refitted = r.refitted,
                                       !.lost = LostFlags(ig, r.m)]
       /\ UNCHANGED insightOthers

IGClustersCall ==
    \E r \in {IGClusters(ig, run_jobs)} :
       /\ ig' = r.m
       /\ ig_call' = [NoInsight EXCEPT !.op = "clusters", !.outcome = "returned",
                                       !.clustering = r.method, !.refitted = r.refitted,
                                       !.lost = LostFlags(ig, r.m)]
       /\ UNCHANGED insightOthers

IGOpportunitiesCall ==
    \E rawOf \in RawChoices(ig, run_jobs) :
        \E r \in {IGOpportunities(ig, run_jobs, rawOf)} :
           /\ ig' = ig
           /\ ig_call' = [NoInsight EXCEPT !.op = "opportunities", !.outcome = "returned",
                                           !.rankings = r.records, !.has_rankings = TRUE,
                                           !.not_fitted = r.not_fitted]
           /\ UNCHANGED insightOthers

IGTrendsCall ==
    \E r \in {IGTrends(ig, run_jobs)} :
       /\ ig' = ig
       /\ ig_call' = [NoInsight EXCEPT !.op = "trends", !.outcome = "returned",
                                       !.trends = r.method, !.not_fitted = r.not_fitted]
       /\ UNCHANGED insightOthers

IGComprehensiveCall ==
    \E rawOf \in RawChoices(IGTrain(ig, run_jobs).m, run_jobs) \cup RawChoices(ig, run_jobs) :
        \E r \in {IGComprehensive(ig, run_jobs, rawOf)} :
           /\ ig' = r.m
           /\ ig_call' = r.call
           /\ UNCHANGED insightOthers

\* MLInsightGenerator(use_ml): CompanyClusterer(n_clusters=5), OpportunityScorer()
\* and HiringTrendPredictor(), all unfitted.
InsightObject(use_ml) ==
    /\ ig = [use_ml |-> use_ml, available |-> FALSE, n_clusters |-> DefaultClusters,
             clusterer_fitted |-> FALSE,
             scorer_fitted |-> FALSE, predictor_fitted |-> FALSE]
    /\ ig_call = NoInsight

-----------------------------------------------------------------------------
(* MLJobIntelligenceSystem (ml_agent_runner.py). *)

NoRunnerCall == [op |-> "none", outcome |-> "none", error |-> "none",
                 not_fitted |-> {}, has_report |-> FALSE,
                 processed_jobs |-> <<>>,
                 scored |-> 0, opportunity_rankings |-> <<>>, ml_summary_high |-> 0,
                 high_priority_opportunities |-> 0]

\* len([opp for opp in ... if opp['priority_level'] == 'High']) over the
\* priority levels of a list of opportunities.
HighCount(priorities) == Len(SelectSeq(priorities, LAMBDA p : p = "High"))

\* Line 187: 'opportunity_rankings': opportunities[:10].
OpportunityRankings(opportunities) == FirstN(opportunities, TopRanked)

\* Line 195: the count of ml_summary, over all opportunities.
MLSummaryHigh(opportunities) == HighCount(opportunities)

\* Line 256: the count of the pipeline's summary, over
\* ml_insights['opportunity_rankings'].
SummaryHigh(opportunities) == HighCount(OpportunityRankings(opportunities))

Returned(m, op) == [m |-> m, call |-> [NoRunnerCall EXCEPT !.op = op, !.outcome = "returned"]]

Raised(m, op, error, models) ==
    [m |-> m, call |-> [NoRunnerCall EXCEPT !.op = op, !.outcome = "raised",
                                            !.error = error, !.not_fitted = models]]

\* train_all_models(jobs): the system after the call, and how the call ended.
\* An exception of a sub-model is logged and raised again; what was trained
\* before it stays trained.
RunnerTrain(m, list) ==
    IF Len(list) < MinTrainingJobs THEN Raised(m, "train", "insufficient_data", {})
    ELSE
    LET m1 == [m EXCEPT !.extractor_fitted = TRUE]
        Clustered(uc, m2, cl) ==
            LET m5 == [cl.m EXCEPT !.scorer_fitted = TRUE]
            IN IF uc = "raised" THEN Raised(m1, "train", "urgency_classifier", {})
               ELSE IF TechTrain(list) = "raised"
                    THEN Raised(m2, "train", "tech_classifier", {})
               ELSE IF cl.raised THEN Raised(cl.m, "train", "company_clusterer", {})
               ELSE IF ScorerFitRaises(list)
                    THEN Raised(cl.m, "train", "opportunity_scorer", {})
               ELSE IF PredictorFit(list) = "raised"
                    THEN Raised(m5, "train", "trend_predictor", {})
               ELSE Returned([m5 EXCEPT !.is_trained = TRUE], "train")
        Classified(uc) ==
            LET m2 == [m1 EXCEPT !.uc_trained = (m1.uc_trained \/ uc = "trained")]
                m3 == [m2 EXCEPT !.tc_trained = TRUE]
            IN Clustered(uc, m2, SubFitPredict(m3, list))
    IN Classified(UrgencyTrain(list))

\* process_jobs_ml(jobs): predict, predict_proba and predict_tech_categories
\* are called whatever the classifiers' flags say.
RunnerProcess(m, list) ==
    IF ~m.is_trained THEN Raised(m, "process", "system_not_trained", {})
    ELSE IF ~m.uc_trained THEN Raised(m, "process", "model_not_fitted", {"urgency_classifier"})
    ELSE IF ~m.tc_trained THEN Raised(m, "process", "model_not_fitted", {"tech_classifier"})
    ELSE Returned(m, "process")

\* generate_ml_insights(jobs): fit_predict again, then score_opportunities and
\* predict_trends, called whatever the sub-models' flags say.
RunnerInsights(m, list) ==
    IF ~m.is_trained THEN Raised(m, "insights", "system_not_trained", {})
    ELSE LET After(cl) ==
                 IF cl.raised THEN Raised(cl.m, "insights", "company_clusterer", {})
                 ELSE IF ~cl.m.scorer_fitted
                      THEN Raised(cl.m, "insights", "model_not_fitted", {"opportunity_scorer"})
                 ELSE IF ~cl.m.predictor_fitted
                      THEN Raised(cl.m, "insights", "model_not_fitted", {"trend_predictor"})
                 ELSE [m |-> cl.m,
                       call |-> [NoRunnerCall EXCEPT !.op = "insights", !.outcome = "returned",
                                                     !.has_report = TRUE]]
         IN After(SubFitPredict(m, list))

\* run_complete_ml_pipeline(): load, train, process, generate insights, save.
\* No exception is caught; without postings it returns {'error': ...}.
RunnerPipeline(m, list) ==
    IF list = <<>>
    THEN [m |-> m, call |-> [NoRunnerCall EXCEPT !.op = "pipeline", !.outcome = "returned",
                                                 !.error = "no_job_data"]]
    ELSE LET asPipeline(r) == [m |-> r.m, call |-> [r.call EXCEPT !.op = "pipeline"]]
             Processed(tr, pr) ==
                 IF tr.call.outcome = "raised" THEN asPipeline(tr)
                 ELSE IF pr.call.outcome = "raised" THEN asPipeline(pr)
                 ELSE asPipeline(RunnerInsights(pr.m, list))
             Trained(tr) == Processed(tr, RunnerProcess(tr.m, list))
         IN Trained(RunnerTrain(m, list))

RunnerTrainCall ==
    \E r \in {RunnerTrain(rn, run_jobs)} :
        rn' = r.m /\ rn_call' = r.call /\ UNCHANGED runnerOthers

RunnerProcessCall ==
    \E r \in {RunnerProcess(rn, run_jobs)} :
        rn' = r.m /\ rn_call' = r.call /\ UNCHANGED runnerOthers

RunnerInsightsCall ==
    \E r \in {RunnerInsights(rn, run_jobs)} :
        rn' = r.m /\ rn_call' = r.call /\ UNCHANGED runnerOthers

RunnerPipelineCall ==
    \E r \in {RunnerPipeline(rn, run_jobs)} :
        rn' = r.m /\ rn_call' = r.call /\ UNCHANGED runnerOthers

\* MLJobIntelligenceSystem(): every sub-model unfitted, CompanyClusterer(n_clusters=5).
RunnerObject ==
    /\ rn = [is_trained |-> FALSE, extractor_fitted |-> FALSE, uc_trained |-> FALSE,
             tc_trained |-> FALSE, n_clusters |-> DefaultClusters,
             clusterer_fitted |-> FALSE, scorer_fitted |-> FALSE,
             predictor_fitted |-> FALSE]
    /\ rn_call = NoRunnerCall

-----------------------------------------------------------------------------
(* MLSignalProcessor (agent2_signal_processor/ml_processor.py). *)

\* The descriptions of the postings of a run.
Descriptions == {"plain", "urgent", "urgent hire asap", "python"}

\* predict_proba of a trained classifier, in percent: a probability on either
\* side of 0.5.
MLUrgencyScores == {10, 90}

\* _create_training_labels(jobs), lines 33-39 of text_classifier.py: the label
\* of a posting is read from its urgent_hiring_language field.
TrainingLabels(list) == [i \in 1..Len(list) |-> IF list[i].uhl THEN 1 ELSE 0]

\* The labels train_models(jobs) trains the urgency classifier on (line 59), if
\* it gets there.
TrainedOn(m, list) ==
    IF ~m.use_ml \/ Len(list) < MinTrainingJobs THEN <<>> ELSE TrainingLabels(list)

\* train_models(jobs): the processor after the call and the status returned.
SPTrain(m, list) ==
    IF ~m.use_ml \/ Len(list) < MinTrainingJobs THEN [m |-> m, status |-> "skipped"]
    ELSE LET failed(mm) == [m |-> [mm EXCEPT !.use_ml = FALSE], status |-> "failed"]
             After(uc) ==
                 LET m1 == [m EXCEPT !.uc_trained = (m.uc_trained \/ uc = "trained")]
                     m2 == [m1 EXCEPT !.tc_trained = TRUE, !.extractor_fitted = TRUE]
                 IN IF uc = "raised" THEN failed(m)
                    ELSE IF TechTrain(list) = "raised" THEN failed(m1)
                    ELSE [m |-> [m2 EXCEPT !.available = TRUE], status |-> "trained"]
         IN After(UrgencyTrain(list))

\* Lines 100-106: the result for a description the classifier scored.
MLUrgency(desc, score) ==
    [desc |-> desc,
     ml_urgency_score |-> score,
     has_class |-> TRUE,
     ml_urgency_class |-> IF score > 50 THEN 1 ELSE 0,
     rule_based_signals |-> ExtractUrgent(desc),
     confidence |-> IF score > 70 \/ Cardinality(ExtractUrgent(desc)) > 2
                    THEN "high" ELSE "medium"]

\* Lines 116-123: the rule-based fallback for a description.
FallbackUrgency(desc) ==
    [desc |-> desc,
     ml_urgency_score |-> IF ExtractUrgent(desc) # {} THEN 100 ELSE 0,
     has_class |-> TRUE,
     ml_urgency_class |-> IF ExtractUrgent(desc) # {} THEN 1 ELSE 0,
     rule_based_signals |-> ExtractUrgent(desc),
     confidence |-> "rule_based"]

\* process_urgency_ml(descriptions): predict_proba raises its must-be-trained
\* error on an untrained classifier, which the processor catches.
\* The ML branch is taken whatever self.use_ml says.
MLPathWhenAvailable(m) == m.available

\* Lines 89 and 132: if self.use_ml and self.ml_models_available.
MLPath(m) == m.use_ml /\ m.available

SPUrgency(m, descs, pred) ==
    IF MLPath(m) /\ m.uc_trained
    THEN [results |-> [i \in 1..Len(descs) |-> MLUrgency(descs[i], pred[descs[i]])],
          classifier_used |-> TRUE, not_fitted |-> {}]
    ELSE [results |-> [i \in 1..Len(descs) |-> FallbackUrgency(descs[i])],
          classifier_used |-> FALSE,
          not_fitted |-> IF m.use_ml /\ m.available THEN {"urgency_classifier"} ELSE {}]

\* extract_technologies_ml, lines 213-236 of text_classifier.py: the first two
\* technologies of every category predicted above the threshold; here of no
\* category or of 'Web Frameworks'.
MLTechSets == {{}, {"React", "Node.js"}}

\* The ML extraction taken alone.
CombinedTechMLOnly(ml, rule) == ml

\* Line 146: list(set(ml_tech_extraction[i] + rule_based_tech)).
CombinedTech(ml, rule) == ml \cup rule

\* process_technology_ml(descriptions): predict_tech_categories raises its
\* must-be-trained error on an untrained classifier, which the processor
\* catches; the fallback of lines 157-167 gives the rule-based list.
SPTechnology(m, descs, mlTech) ==
    IF MLPath(m) /\ m.tc_trained
    THEN [i \in 1..Len(descs) |->
             [desc |-> descs[i],
              combined_tech |-> CombinedTech(mlTech[descs[i]], ExtractTechnology(descs[i])),
              confidence |-> IF Cardinality(mlTech[descs[i]]) > 2 THEN "high" ELSE "medium"]]
    ELSE [i \in 1..Len(descs) |->
             [desc |-> descs[i], combined_tech |-> ExtractTechnology(descs[i]),
              confidence |-> "rule_based"]]

\* What a trained technology classifier extracts from each description of a
\* call: one extraction for the descriptions that name a technology and one for
\* those that do not.
TechChoices(m, descs) ==
    LET given == {descs[i] : i \in 1..Len(descs)}
    IN IF m.tc_trained
       THEN {[d \in given |-> IF ExtractTechnology(d) # {} THEN named ELSE other] :
                named \in MLTechSets, other \in MLTechSets}
       ELSE {[d \in given |-> {}]}

\* Lines 198 and 269: the technology_adoption field of a processed posting.
TechnologyAdoption(results) ==
    [i \in 1..Len(results) |->
        [desc |-> results[i].desc, technology_adoption |-> results[i].combined_tech]]

ProcessingMethod(m) == IF m.use_ml /\ m.available THEN "ml_hybrid" ELSE "rule_based"

\* Lines 241-246: the rule-based branch of the batch.
BatchRuleUrgency(desc) ==
    [desc |-> desc,
     ml_urgency_score |-> 0,
     has_class |-> FALSE,
     ml_urgency_class |-> 0,
     rule_based_signals |-> ExtractUrgent(desc),
     confidence |-> "none"]

\* Lines 266-275: what a processed posting of the batch keeps of an urgency
\* result.
BatchRecord(r) == [r EXCEPT !.has_class = FALSE, !.ml_urgency_class = 0, !.confidence = "none"]

DescriptionsOf(list) == [i \in 1..Len(list) |-> list[i].desc]

\* process_jobs_batch_ml(jobs): the processor after the call and the processed
\* postings.
\* Both calls of lines 232-233 catch what their ML part raises and the
\* rule-based extractors take any string, so the handler of lines 234-237 is
\* not reached.
SPBatch(m, list, pred, mlTech) ==
    LET \* Lines 229-275.
        Processed(m1, ur) ==
            IF m1.use_ml /\ m1.available
            THEN [m |-> m1,
                  results |-> [i \in 1..Len(list) |-> BatchRecord(ur.results[i])],
                  classifier_used |-> ur.classifier_used, not_fitted |-> ur.not_fitted,
                  tech |-> TechnologyAdoption(SPTechnology(m1, DescriptionsOf(list), mlTech))]
            ELSE [m |-> m1,
                  results |-> [i \in 1..Len(list) |-> BatchRuleUrgency(list[i].desc)],
                  classifier_used |-> FALSE, not_fitted |-> {},
                  tech |-> [i \in 1..Len(list) |->
                              [desc |-> list[i].desc,
                               technology_adoption |-> ExtractTechnology(list[i].desc)]]]
        Ready(m1) == Processed(m1, SPUrgency(m1, DescriptionsOf(list), pred))
        \* Lines 219-222.
        Trained(tr) ==
            Ready(IF m.use_ml /\ ~m.available /\ Len(list) >= MinTrainingJobs
                  THEN IF tr.status # "failed" THEN [tr.m EXCEPT !.available = TRUE] ELSE tr.m
                  ELSE m)
    IN Trained(SPTrain(m, list))

\* What a trained classifier predicts for each description of a call.
Predictions(m, descs) ==
    LET given == {descs[i] : i \in 1..Len(descs)}
    IN IF m.uc_trained THEN [given -> MLUrgencyScores]
       ELSE {[d \in given |-> 0]}

NoSignalCall == [op |-> "none", status |-> "none", labels |-> <<>>, processed_jobs |-> <<>>,
                 processed |-> FALSE, results |-> <<>>,
                 classifier_used |-> FALSE, method |-> "none", not_fitted |-> {},
                 tech |-> <<>>, tech_method |-> "none"]

\* Which path gave the technologies of a call.
TechMethod(m) ==
    IF ~(m.use_ml /\ m.available) THEN "rule_based"
    ELSE IF m.tc_trained THEN "ml_hybrid" ELSE "fallback"

SPTrainCall ==
    \E r \in {SPTrain(sp, run_jobs)} :
       /\ sp' = r.m
       /\ sp_call' = [NoSignalCall EXCEPT !.op = "train", !.status = r.status,
                                          !.labels = TrainedOn(sp, run_jobs)]
       /\ UNCHANGED signalOthers

\* Postings other than the run's on which training fails: one urgent posting
\* among them, which the stratified split of the urgency classifier refuses.
OtherTrainingJobs == {CompanyPostings("A", 2 * MaxJobs, 1, 0)}

\* train_models(jobs) on other postings than the run's.
SPTrainOtherCall ==
    \E list \in OtherTrainingJobs :
        \E r \in {SPTrain(sp, list)} :
           /\ sp' = r.m
           /\ sp_call' = [NoSignalCall EXCEPT !.op = "train_other", !.status = r.status,
                                              !.labels = TrainedOn(sp, list)]
           /\ UNCHANGED signalOthers

SPUrgencyCall ==
    \E pred \in Predictions(sp, DescriptionsOf(run_jobs)) :
        \E r \in {SPUrgency(sp, DescriptionsOf(run_jobs), pred)} :
           /\ sp' = sp
           /\ sp_call' = [NoSignalCall EXCEPT !.op = "urgency", !.processed = TRUE,
                              !.results = r.results, !.classifier_used = r.classifier_used,
                              !.method = ProcessingMethod(sp), !.not_fitted = r.not_fitted]
           /\ UNCHANGED signalOthers

\* process_technology_ml(descriptions) on the descriptions of the run.
SPTechnologyCall ==
    \E mlTech \in TechChoices(sp, DescriptionsOf(run_jobs)) :
        /\ sp' = sp
        /\ sp_call' = [NoSignalCall EXCEPT !.op = "technology",
                           !.tech = TechnologyAdoption(
                                        SPTechnology(sp, DescriptionsOf(run_jobs), mlTech)),
                           !.tech_method = TechMethod(sp), !.method = ProcessingMethod(sp)]
        /\ UNCHANGED signalOthers

\* process_job_signals_ml(job) on one posting of the run; of the posting the
\* call reads the description (line 173).
SPJobSignalsCall ==
    \E desc \in {run_jobs[i].desc : i \in 1..Len(run_jobs)} :
      \E pred \in Predictions(sp, <<desc>>), mlTech \in TechChoices(sp, <<desc>>) :
        \E r \in {SPUrgency(sp, <<desc>>, pred)} :
           /\ sp' = sp
           /\ sp_call' = [NoSignalCall EXCEPT !.op = "job_signals", !.processed = TRUE,
                              !.results = r.results, !.classifier_used = r.classifier_used,
                              !.method = ProcessingMethod(sp), !.not_fitted = r.not_fitted,
                              !.tech = TechnologyAdoption(SPTechnology(sp, <<desc>>, mlTech)),
                              !.tech_method = TechMethod(sp)]
           /\ UNCHANGED signalOthers

SPBatchCall ==
    \E pred \in Predictions(sp, DescriptionsOf(run_jobs))
                \cup Predictions(SPTrain(sp, run_jobs).m, DescriptionsOf(run_jobs)),
       mlTech \in TechChoices(sp, DescriptionsOf(run_jobs))
                \cup TechChoices(SPTrain(sp, run_jobs).m, DescriptionsOf(run_jobs)) :
        \E r \in {SPBatch(sp, run_jobs, pred, mlTech)} :
           /\ sp' = r.m
           /\ sp_call' = [NoSignalCall EXCEPT !.op = "batch", !.processed = TRUE,
                              !.results = r.results, !.classifier_used = r.classifier_used,
                              !.method = ProcessingMethod(r.m), !.not_fitted = r.not_fitted,
                              !.tech = r.tech, !.tech_method = TechMethod(r.m),
                              !.labels = IF sp.available THEN <<>>
                                         ELSE TrainedOn(sp, run_jobs)]
           /\ UNCHANGED signalOthers

\* MLSignalProcessor(use_ml): the classifiers and the extractor unfitted.
SignalObject(use_ml) ==
    /\ sp = [use_ml |-> use_ml, available |-> FALSE, uc_trained |-> FALSE,
             tc_trained |-> FALSE, extractor_fitted |-> FALSE]
    /\ sp_call = NoSignalCall
\* No orchestrator runs.
NoRun ==
    /\ run_jobs = <<>>
    /\ InsightObject(TRUE)
    /\ RunnerObject
    /\ SignalObject(TRUE)

-----------------------------------------------------------------------------
(* The company clusterer alone. *)

ClusterInit ==
    /\ \E k \in 1..MaxK : ClusterObject(k)
    /\ ExtractorObject /\ ScorerObject /\ NoRun /\ ClassifierObject /\ PredictorObject /\ TechStackObject /\ ProxyObject /\ NoClusterTyped

ClusterNext ==
    ClusterFitPredict
    /\ UNCHANGED <<extractorVars, scorerVars, run_jobs, insightVars, runnerVars, signalVars,
                   classifierVars, predictorVars,
        techStackVars, proxyVars, ct_call>>

SpecCluster == ClusterInit /\ [][ClusterNext]_vars

\* The distinct companies the last fit_predict call clustered.
ClusteredCount == Cardinality(cl_call.posted \ {Unknown})

\* k-means was asked to cluster in the last call (the scaler accepted the features).
KMeansAsked == cl_call.outcome \in {"kmeans_raised", "silhouette_raised", "returned"}

\* C7: whenever fit_predict hands its points to k-means, the cluster count it
\* uses is at most the number of distinct companies being clustered.
C7_NeverMoreClustersThanPoints ==
    KMeansAsked => cl_call.k_used <= ClusteredCount

\* C8: in every fit_predict call that returns, also one that follows earlier
\* calls, the effective cluster count is min(k_requested, company count) when
\* there are fewer companies than k_requested, and k_requested otherwise.
C8_EffectiveClusterCount ==
    cl_call.outcome = "returned" =>
        cl_call.k_used = IF ClusteredCount < k_requested
                         THEN Min2(k_requested, ClusteredCount)
                         ELSE k_requested

\* C9 as stated: after fit_predict returns, every company with at least one
\* posting in the input is a key of the returned mapping.
C9_EveryPostingCompanyIsKey ==
    cl_call.outcome = "returned" =>
        \A c \in cl_call.posted : c \in DOMAIN cl_call.result

\* C9 amended: after fit_predict returns, the keys of the returned mapping are
\* exactly the companies with at least one posting other than the placeholder
\* 'Unknown', and each is mapped to one cluster id among 0..k-1.
C9_EveryKnownCompanyIsKey ==
    cl_call.outcome = "returned" =>
        /\ DOMAIN cl_call.result = cl_call.posted \ {Unknown}
        /\ \A c \in cl_call.posted \ {Unknown} :
               cl_call.result[c] \in 0..(cl_call.k_used - 1)

\* C9 witness: a returned clustering of three companies whose input also held a
\* posting of the 'Unknown' placeholder.
C9_Witness ==
    /\ cl_call.outcome = "returned"
    /\ Unknown \in cl_call.posted
    /\ ClusteredCount = 3

-----------------------------------------------------------------------------
(* The opportunity scorer alone. *)

\* The posting lists handed to the scorer alone: one posting of each company of
\* a set, a posting without company first when there is one.
ScorerJobs ==
    {Repeat(MkJob(Unknown), IF Unknown \in S THEN 1 ELSE 0)
        \o Repeat(MkJob("A"), IF "A" \in S THEN 1 ELSE 0)
        \o Repeat(MkJob("B"), IF "B" \in S THEN 1 ELSE 0)
        \o Repeat(MkJob("C"), IF "C" \in S THEN 1 ELSE 0) : S \in SUBSET CompanyNames}

\* What a call on the scorer alone leaves alone.
scorerOthers == <<clusterVars, extractorVars, run_jobs, insightVars, runnerVars, signalVars,
                  classifierVars, predictorVars,
        techStackVars, proxyVars, ct_call>>

ScorerFitCall ==
    /\ \E jobs \in ScorerJobs : ScorerFit(jobs)
    /\ UNCHANGED scorerOthers

ScorerScoreCall ==
    /\ \E jobs \in ScorerJobs : ScorerScore(jobs)
    /\ UNCHANGED scorerOthers

ScorerInit ==
    /\ ScorerObject /\ ClusterObject(DefaultClusters) /\ ExtractorObject /\ NoRun
    /\ ClassifierObject /\ PredictorObject /\ TechStackObject /\ ProxyObject /\ NoClusterTyped

ScorerNext == ScorerFitCall \/ ScorerScoreCall

SpecScorer == ScorerInit /\ [][ScorerNext]_vars

\* The records the last score_opportunities call returned.
ScoredRecords == {sc_call.result[i] : i \in 1..Len(sc_call.result)}

\* The priority the contract gives a reported score (in 1/100 of a point).
ContractPriority(reported) ==
    IF reported >= HighThreshold * Hundredth THEN "High"
    ELSE IF reported >= MediumThreshold * Hundredth THEN "Medium"
    ELSE "Low"

\* C3: in every record score_opportunities returns, priority_level is 'High'
\* iff the reported opportunity_score is >= 80, 'Medium' iff it is >= 60 and
\* < 80, and 'Low' otherwise.
C3_PriorityMatchesReportedScore ==
    sc_call.outcome = "returned" =>
        \A rec \in ScoredRecords :
            rec.priority_level = ContractPriority(rec.opportunity_score)

-----------------------------------------------------------------------------
(* The feature extractor alone. *)

ExtractorInit ==
    /\ ExtractorObject /\ ClusterObject(DefaultClusters) /\ ScorerObject /\ NoRun
    /\ ClassifierObject /\ PredictorObject /\ TechStackObject /\ ProxyObject /\ NoClusterTyped

\* What a call on the feature extractor alone leaves alone.
extractorOthers == <<clusterVars, scorerVars, run_jobs, insightVars, runnerVars, signalVars,
                     classifierVars, predictorVars,
        techStackVars, proxyVars, ct_call>>

ExtractorNext ==
    \/ ExtractorExtractCategorical /\ UNCHANGED extractorOthers
    \/ ExtractorExtractAll /\ UNCHANGED extractorOthers

SpecExtractor == ExtractorInit /\ [][ExtractorNext]_vars

\* C10: once the label encoders are fitted, extracting categorical features
\* from postings holding a value the fit did not see does not raise, and the
\* value gets the code of 'Unknown'.
C10_UnseenValueNeverRaises ==
    (fx_call.op = "categorical" /\ fx_call.after_fit /\ fx_call.unseen) =>
        (fx_call.outcome = "returned" /\ fx_call.as_unknown)

\* C11: once the extractor has been fitted, extracting features from an empty
\* posting list never raises: the call returns (feature blocks with zero rows
\* and the dimensionality of the fit).
C11_EmptyInputNeverRaises ==
    (fx_call.op \in {"all", "categorical"} /\ fx_call.after_fit /\ fx_call.rows = 0) =>
        fx_call.outcome = "returned"

\* Any sequence of extract_all_features and extract_* calls on one extractor.
BlocksNext ==
    \/ ExtractorExtractText /\ UNCHANGED extractorOthers
    \/ BlocksExtractCategorical /\ UNCHANGED extractorOthers
    \/ ExtractorExtractNumerical /\ UNCHANGED extractorOthers
    \/ BlocksExtractAll /\ UNCHANGED extractorOthers

SpecBlocks == ExtractorInit /\ [][BlocksNext]_vars

\* C23: over any sequence of extraction calls on one extractor, the text
\* vocabulary, the label map of each categorical column and the scaler
\* statistics are fitted at most once: no call fits a block that an earlier
\* call fitted.
C23_EachBlockFittedOnce == fx_call.refitted = {}

\* C24: once an extract_all_features call has succeeded, the columns of a
\* combined row are fixed: the call that fits the extractor lays its rows out
\* as the text block of the fitted vocabulary, the 4 categorical columns and
\* the 9 numerical columns, no later call changes the vocabulary, and every
\* later extract_all_features call that returns lays its rows out the same.
C24_DimensionalityFixedByFirstFit ==
    [][/\ (extractor_fitted' /\ fx_call'.op = "all" /\ fx_call'.outcome = "returned") =>
              /\ fx_call'.columns = Layout(tfidf_vocabulary')
              /\ Len(fx_call'.columns) = Cardinality(tfidf_vocabulary') + 4 + 9
       /\ extractor_fitted => tfidf_vocabulary' = tfidf_vocabulary]_vars

\* A fitted extractor returned the features of postings whose descriptions
\* hold a term outside the fitted vocabulary.
C24_Witness ==
    /\ extractor_fitted /\ fx_call.op = "all" /\ fx_call.outcome = "returned"
    /\ fx_call.after_fit /\ fx_call.refitted = {} /\ fx_call.fitted = {}
    /\ fx_call.rows = MaxRows
    /\ fx_call.terms = {"python"} /\ tfidf_vocabulary = {"plain"}
    /\ Len(fx_call.columns) = 1 + 4 + 9

-----------------------------------------------------------------------------
(* The urgency classifier alone. *)

\* What a call on the urgency classifier alone leaves alone.
classifierOthers == <<clusterVars, extractorVars, scorerVars, run_jobs, insightVars,
                      runnerVars, signalVars, predictorVars,
        techStackVars, proxyVars, ct_call>>

\* train(jobs) on any posting list of the runs.
UCTrainCall ==
    \E list \in RunJobs :
        LET r == UCTrain(urgency, list)
        IN /\ urgency' = r.m
           /\ urgency_call' = [op |-> "train", outcome |-> r.outcome, n |-> Len(list),
                               pos |-> UrgentCount(list), before |-> urgency]
           /\ UNCHANGED classifierOthers

\* predict(descriptions) / predict_proba(descriptions), lines 80-96.
UCPredictCall ==
    /\ urgency' = urgency
    /\ urgency_call' = [op |-> "predict",
                        outcome |-> IF urgency.is_trained THEN "returned" ELSE "raised",
                        n |-> 0, pos |-> 0, before |-> urgency]
    /\ UNCHANGED classifierOthers

ClassifierInit ==
    /\ ClassifierObject /\ PredictorObject /\ TechStackObject /\ ProxyObject /\ NoClusterTyped
    /\ ClusterObject(DefaultClusters) /\ ScorerObject /\ ExtractorObject /\ NoRun

ClassifierNext == UCTrainCall \/ UCPredictCall

SpecClassifier == ClassifierInit /\ [][ClassifierNext]_vars

\* The labels of the last train call were all 0 or all 1.
IdenticalLabels == urgency_call.pos = 0 \/ urgency_call.pos = urgency_call.n

\* C12: when every training label is identical, train returns without raising,
\* fits nothing (vectorizer, forest and flag are as before the call), and a
\* classifier whose is_trained was false still has it false.
C12_IdenticalLabelsSkipTraining ==
    (urgency_call.op = "train" /\ IdenticalLabels) =>
        /\ urgency_call.outcome = "skipped"
        /\ urgency = urgency_call.before
        /\ ~urgency_call.before.is_trained => ~urgency.is_trained

\* A train call on ten or more postings, all urgent, on a classifier that was
\* not trained and is not afterwards.
C12_Witness ==
    /\ urgency_call.op = "train"
    /\ urgency_call.n >= MinTrainingJobs
    /\ urgency_call.pos = urgency_call.n
    /\ ~urgency_call.before.is_trained
    /\ ~urgency.is_trained

-----------------------------------------------------------------------------
(* The trend predictor alone. *)

\* What a call on the trend predictor alone leaves alone.
predictorOthers == <<clusterVars, extractorVars, scorerVars, run_jobs, insightVars,
                     runnerVars, signalVars, classifierVars,
        techStackVars, proxyVars, ct_call>>

\* The posting lists handed to the predictor alone: none, one fewer than fit
\* asks for, as many, or a run's number of postings, scraped on up to MaxDays
\* days, and after them possibly one posting without scraped_date.
PredictorJobs ==
    {WithDays(Repeat(Posting("A", "plain", 0, 1), n), days)
        \o Repeat(Posting("A", "plain", 0, NoDate), undated) :
        n \in {0, MinTrainingJobs - 1, MinTrainingJobs, 2 * MaxJobs + MaxUnknown},
        days \in 1..MaxDays, undated \in 0..1}

\* fit(jobs) on some day.  Neither the error returns nor the KeyError of line
\* 126 change the predictor.
PredictorFitCall ==
    \E list \in PredictorJobs, today \in 0..MaxClock :
        LET df == PrepareTimeSeries(list, today)
        IN /\ predictor' = predictor
           /\ predictor_call' = [NoPredictorCall EXCEPT !.op = "fit",
                                     !.outcome = PredictorFit(df), !.jobs = list,
                                     !.n = Len(list), !.days = DistinctDays(df),
                                     !.today = today, !.before = predictor]
           /\ UNCHANGED predictorOthers

\* predict_trends(days_ahead) on some day.
PredictorTrendsCall ==
    \E days_ahead \in (0 - 1)..MaxAhead, today \in 0..MaxClock :
        LET r == PredictTrends(predictor, days_ahead, today)
        IN /\ predictor' = predictor
           /\ predictor_call' = [NoPredictorCall EXCEPT !.op = "predict_trends",
                                     !.outcome = r.outcome, !.days_ahead = days_ahead,
                                     !.today = today, !.before = predictor,
                                     !.dates = r.dates, !.volume = r.volume,
                                     !.urgency = r.urgency, !.tech_adoption = r.tech_adoption]
           /\ UNCHANGED predictorOthers

PredictorInit ==
    /\ predictor \in Predictors
    /\ predictor_call = NoPredictorCall
    /\ ClassifierObject /\ TechStackObject /\ ProxyObject /\ NoClusterTyped
    /\ ClusterObject(DefaultClusters) /\ ScorerObject /\ ExtractorObject /\ NoRun

PredictorNext == PredictorFitCall \/ PredictorTrendsCall

SpecPredictor == PredictorInit /\ [][PredictorNext]_vars

\* C13: fit called with fewer than 10 postings, or with postings on fewer than
\* 3 distinct calendar days, returns an error result, trains no regressor (the
\* predictor is as before the call) and a predictor whose is_fitted was false
\* still has it false.
C13_InsufficientDataIsAnError ==
    (predictor_call.op = "fit"
       /\ (predictor_call.n < MinTrainingJobs \/ predictor_call.days < MinTrainingDays)) =>
        /\ predictor_call.outcome = "error"
        /\ predictor = predictor_call.before
        /\ ~predictor_call.before.is_fitted => ~predictor.is_fitted

\* A fit call on ten or more postings of fewer than 3 days, on an unfitted
\* predictor, that returned the error result.
C13_Witness ==
    /\ predictor_call.op = "fit"
    /\ predictor_call.n >= MinTrainingJobs
    /\ predictor_call.days < MinTrainingDays
    /\ predictor_call.outcome = "error"
    /\ ~predictor.is_fitted

\* The values of the three forecast lists of the last call.
ForecastValues ==
    {predictor_call.volume[i] : i \in 1..Len(predictor_call.volume)}
    \cup {predictor_call.urgency[i] : i \in 1..Len(predictor_call.urgency)}
    \cup {predictor_call.tech_adoption[i] : i \in 1..Len(predictor_call.tech_adoption)}

\* C14: every value in the volume, urgency and tech_adoption lists predict_trends
\* returns is >= 0, whatever the fitted regressors predict and whatever
\* days_ahead is.
C14_ForecastsNonNegative ==
    (predictor_call.op = "predict_trends" /\ predictor_call.outcome = "returned") =>
        \A x \in ForecastValues : x >= 0

\* A forecast of MaxAhead days by a predictor whose volume regressor predicts
\* negative numbers and whose urgency regressor predicts NaN.
C14_Witness ==
    /\ predictor_call.op = "predict_trends"
    /\ predictor_call.outcome = "returned"
    /\ Len(predictor_call.volume) = MaxAhead
    /\ ~predictor.volume.base.nan /\ predictor.volume.base.v < 0 /\ predictor.volume.slope = 0
    /\ predictor.urgency.base.nan

-----------------------------------------------------------------------------
(* One run of the insight generator. *)

InsightInit ==
    /\ run_jobs \in RunJobs \cup LargeRuns
    /\ \E use_ml \in BOOLEAN : InsightObject(use_ml)
    /\ RunnerObject /\ SignalObject(TRUE)
    /\ ClusterObject(DefaultClusters) /\ ScorerObject /\ ExtractorObject
    /\ ClassifierObject /\ PredictorObject /\ TechStackObject /\ ProxyObject /\ NoClusterTyped

InsightNext ==
    \/ IGTrainCall
    \/ IGClustersCall
    \/ IGOpportunitiesCall
    \/ IGTrendsCall
    \/ IGComprehensiveCall

SpecInsight == InsightInit /\ [][InsightNext]_vars

\* The records of the opportunity ranking the last call returned.
RankedRecords == {ig_call.rankings[i] : i \in 1..Len(ig_call.rankings)}

\* C4: in every record of an opportunity ranking the insight generator returns,
\* scored by the ML scorer or by the rule-based fallback, priority_level is
\* 'High' iff the score is >= 80, 'Medium' iff it is >= 60 and < 80, and 'Low'
\* otherwise.
C4_SameThresholdsInEveryRanking ==
    ig_call.has_rankings =>
        \A rec \in RankedRecords :
            rec.priority_level = ContractPriority(rec.opportunity_score)

\* C5: in every record of an opportunity ranking, scored by the ML scorer or by
\* the rule-based fallback, 0 <= opportunity_score <= 100.
C5_ScoreWithinBounds ==
    ig_call.has_rankings =>
        \A rec \in RankedRecords :
            /\ 0 <= rec.opportunity_score
            /\ rec.opportunity_score <= MaxScore * Hundredth

\* C16: within one run of the insight generator, no step fits a sub-model that
\* an earlier step of the run has fitted, and no step turns a sub-model's
\* fitted flag back to false.
C16_SubModelsFittedOnce ==
    ig_call.refitted = {} /\ ig_call.lost = {}

\* C17: the fallback is chosen per sub-model: in a report of the insight
\* generator, every sub-model that was fitted successfully produces the ML
\* output (k-means clusters, ML-scored rankings, ML forecast), whatever happened
\* to the other sub-models.
C17_FallbackPerSubModel ==
    ig_call.op = "comprehensive" =>
        /\ ig.clusterer_fitted => ig_call.clustering = "ml_kmeans"
        /\ ig.scorer_fitted =>
               \A rec \in RankedRecords : rec.scoring_method = "ml_ensemble"
        /\ ig.predictor_fitted => ig_call.trends = "ml_time_series"

\* C15: the confidence label of the executive summary is 'high' exactly when
\* the run has at least 50 postings and the ML models are trained, and 'medium'
\* or 'low' otherwise.
C15_HighConfidenceFromFiftyPostings ==
    ig_call.op = "comprehensive" =>
        IF Len(run_jobs) >= HighConfidenceJobs /\ ig.available
        THEN ig_call.confidence = "high"
        ELSE ig_call.confidence \in {"medium", "low"}

\* A ranking of the ML scorer in which one company's weighted score was below
\* 0 and another's above 100.
C5_Witness ==
    /\ ig_call.has_rankings
    /\ \E rec \in RankedRecords :
        rec.scoring_method = "ml_ensemble" /\ rec.opportunity_score = 0
    /\ \E rec \in RankedRecords :
        rec.scoring_method = "ml_ensemble" /\ rec.opportunity_score = MaxScore * Hundredth

\* C19: the opportunity_rankings of the report, from the ML scorer or from the
\* rule-based scoring, are in non-increasing order of score: no record has a
\* higher score than a record before it.
C19_RankingsSortedDescending ==
    \A i, j \in 1..Len(ig_call.rankings) :
        i < j => ig_call.rankings[i].opportunity_score >= ig_call.rankings[j].opportunity_score

\* A report of the ML scorer whose best company is not the one that appears
\* first in the postings.
C19_Witness ==
    /\ ig_call.op = "comprehensive" /\ Len(ig_call.rankings) >= 2
    /\ ig_call.rankings[1].scoring_method = "ml_ensemble"
    /\ ig_call.rankings[1].opportunity_score > ig_call.rankings[2].opportunity_score
    /\ ig_call.rankings[1].company # GroupCompanies(run_jobs)[1]

\* C20: two calls in a row of the trend predictor that differ only in the day
\* they run on give the same output: fit on the same postings ends the same
\* way, and predict_trends of the same fitted predictor for the same number of
\* days returns the same dates and the same predicted values.
C20_OutputIndependentOfRunDay ==
    [][(/\ predictor_call.op \in {"fit", "predict_trends"}
        /\ predictor_call'.op = predictor_call.op
        /\ predictor_call'.before = predictor_call.before
        /\ predictor_call'.jobs = predictor_call.jobs
        /\ predictor_call'.days_ahead = predictor_call.days_ahead)
       => /\ predictor_call'.outcome = predictor_call.outcome
          /\ predictor_call'.dates = predictor_call.dates
          /\ predictor_call'.volume = predictor_call.volume
          /\ predictor_call'.urgency = predictor_call.urgency
          /\ predictor_call'.tech_adoption = predictor_call.tech_adoption]_vars

\* C21: when the signal processor trains the urgency classifier on the postings
\* of a run, the training label of each posting is 1 if and only if the
\* rule-based urgency extractor finds an urgent phrase in its description.
C21_LabelsFromRuleBasedExtractor ==
    sp_call.op \in {"train", "batch"} =>
        \A i \in 1..Len(sp_call.labels) :
            sp_call.labels[i] = 1 <=> ExtractUrgent(run_jobs[i].desc) # {}

-----------------------------------------------------------------------------
(* One run of the pipeline runner. *)

RunnerInit ==
    /\ run_jobs \in RunJobs
    /\ RunnerObject
    /\ InsightObject(TRUE) /\ SignalObject(TRUE)
    /\ ClusterObject(DefaultClusters) /\ ScorerObject /\ ExtractorObject
    /\ ClassifierObject /\ PredictorObject /\ TechStackObject /\ ProxyObject /\ NoClusterTyped

RunnerNext ==
    \/ RunnerTrainCall
    \/ RunnerProcessCall
    \/ RunnerInsightsCall
    \/ RunnerPipelineCall

SpecRunner == RunnerInit /\ [][RunnerNext]_vars

\* C1: once training has completed, the pipeline runner calls inference on a
\* sub-model only when that sub-model is trained or fitted: no call ends with a
\* sub-model's must-be-trained error.
C1_InferenceOnlyOnFittedModels == rn.is_trained => rn_call.not_fitted = {}

\* C2: an end-to-end run on any postings (at least one; fewer than 10 included) does not end
\* with an exception: it returns a report with the opportunity ranking and the
\* trend summary.
C2_PipelineNeverAborts ==
    (rn_call.op = "pipeline" /\ run_jobs # <<>>) =>
        (rn_call.outcome = "returned" /\ rn_call.has_report)

-----------------------------------------------------------------------------
(* One run of the signal processor. *)

\* Postings as the collector hands them over, before any processing: the
\* fields the signal processor adds are not there yet.
Unprocessed(list) == [i \in 1..Len(list) |-> [list[i] EXCEPT !.uhl = FALSE, !.tech = 0]]

\* The runs of the signal processor, which does not read the scrape day of a
\* posting: the runs scraped on one day, of processed or unprocessed postings.
SignalRuns ==
    {list \in RunJobs \cup TechRuns : DistinctDays(list) <= 1}
        \cup {Unprocessed(list) : list \in TechRuns}

SignalInit ==
    /\ run_jobs \in SignalRuns
    /\ \E use_ml \in BOOLEAN : SignalObject(use_ml)
    /\ InsightObject(TRUE) /\ RunnerObject
    /\ ClusterObject(DefaultClusters) /\ ScorerObject /\ ExtractorObject
    /\ ClassifierObject /\ PredictorObject /\ TechStackObject /\ ProxyObject /\ NoClusterTyped

SignalNext ==
    \/ SPTrainCall
    \/ SPTrainOtherCall
    \/ SPUrgencyCall
    \/ SPTechnologyCall
    \/ SPJobSignalsCall
    \/ SPBatchCall

SpecSignal == SignalInit /\ [][SignalNext]_vars

\* The 0/1 reading of the rule-based extractor's result for a description: 1
\* iff at least one urgent phrase matched.
RuleBasedClass(desc) == IF ExtractUrgent(desc) # {} THEN 1 ELSE 0

\* C6: when the results of a processing call do not come from the urgency
\* classifier (it is untrained, or ML is disabled), the urgency score, and the
\* class where there is one, attached to every posting is the rule-based
\* extractor's result read as 0/1, on every processing path.
C6_FallbackEqualsRuleBased ==
    (sp_call.processed /\ ~sp_call.classifier_used) =>
        \A i \in 1..Len(sp_call.results) :
            LET r == sp_call.results[i]
            IN /\ r.ml_urgency_score = 100 * RuleBasedClass(r.desc)
               /\ r.has_class => r.ml_urgency_class = RuleBasedClass(r.desc)

\* C18: on every path (ML-hybrid, fallback after a caught ML error, rule-based)
\* the technology_adoption list of every processed posting holds every
\* technology the rule-based extractor finds in the posting's description.
C18_RuleBasedTechnologiesKept ==
    \A i \in 1..Len(sp_call.tech) :
        ExtractTechnology(sp_call.tech[i].desc) \subseteq sp_call.tech[i].technology_adoption

\* A batch processed on the ML-hybrid path in which a posting whose description
\* names Python got the two technologies the classifier extracted, and Python.
C18_Witness ==
    /\ sp_call.op = "batch"
    /\ sp_call.tech_method = "ml_hybrid"
    /\ \E i \in 1..Len(sp_call.tech) :
          /\ sp_call.tech[i].desc = "python"
          /\ sp_call.tech[i].technology_adoption = {"Python", "React", "Node.js"}

\* C27: a posting that process_job_signals_ml or process_jobs_batch_ml tags
\* 'ml_hybrid' got its urgency result from the trained urgency classifier; a
\* posting whose urgency result is the rule-based fallback's is tagged
\* 'rule_based'.
C27_HybridTagMeansClassifierUsed ==
    (sp_call.op \in {"job_signals", "batch"} /\ sp_call.method = "ml_hybrid") =>
        sp_call.classifier_used

\* C28: over any sequence of calls on one processor, use_ml only ever goes
\* from true to false and ml_models_available only from false to true, and a
\* call on a processor whose use_ml is false neither trains a model nor takes
\* an ML branch, and leaves the processor as it is.
C28_FlagsMonotonic ==
    [][/\ sp'.use_ml => sp.use_ml
       /\ sp.available => sp'.available
       /\ ~sp.use_ml =>
              /\ sp' = sp
              /\ sp_call'.labels = <<>>
              /\ ~sp_call'.classifier_used
              /\ sp_call'.tech_method \in {"none", "rule_based"}]_vars

\* A batch processed rule-based by a processor whose models are available and
\* whose use_ml an earlier, failed training switched off.
C28_Witness ==
    /\ ~sp.use_ml /\ sp.available /\ sp.uc_trained
    /\ sp_call.op = "batch" /\ sp_call.labels = <<>>
    /\ sp_call.method = "rule_based" /\ ~sp_call.classifier_used
    /\ Len(sp_call.results) >= MinTrainingJobs

-----------------------------------------------------------------------------
(* Calls on one TechStackClassifier. *)

techStackOthers == <<clusterVars, extractorVars, scorerVars, run_jobs, insightVars,
                     runnerVars, signalVars, classifierVars, predictorVars, proxyVars,
                     ct_call>>

\* The categories whose labels have both classes in some training set.
DiverseSets ==
    {{}, {"Web Frameworks"}, {"Programming Languages", "Databases"},
     {"Programming Languages", "Web Frameworks", "Cloud Platforms", "Databases"}}

\* Probabilities in percent, and the thresholds of a call (0.5 is the default).
Probabilities == {10, 50, 90}
Thresholds == {50, 90}

\* What predict_tech_categories gives the descriptions of one call: any
\* probabilities for the first description, all high for the others.
PredictionLists(models) ==
    LET cats == {models[i] : i \in 1..Len(models)}
        rest == {[c \in cats |-> 90]}
    IN {<<>>} \cup
       UNION {{<<f>> \o tl : tl \in [1..n -> rest]} :
                  f \in [cats -> Probabilities], n \in 0..(MaxDescriptions - 1)}

\* train(jobs).
TSCTrainCall ==
    \E diverse \in DiverseSets :
        \E raising \in diverse \cup {"none"} :
            /\ tsc' = TSCTrain(tsc, diverse, raising)
            /\ tsc_call' = [NoTechStackCall EXCEPT !.op = "train",
                                !.outcome = IF raising = "none" THEN "returned" ELSE "raised",
                                !.before = tsc]
            /\ UNCHANGED techStackOthers

\* extract_technologies_ml(descriptions, threshold).
TSCExtractCall ==
    \E predictions \in PredictionLists(tsc.models), threshold \in Thresholds :
        \E r \in {ExtractTechnologiesML(tsc, predictions, threshold)} :
            /\ tsc' = tsc
            /\ tsc_call' = [NoTechStackCall EXCEPT !.op = "extract", !.outcome = r.outcome,
                                !.threshold = threshold, !.predictions = predictions,
                                !.result = r.result, !.before = tsc]
            /\ UNCHANGED techStackOthers

TechStackInit ==
    /\ TechStackObject /\ ProxyObject /\ NoClusterTyped
    /\ ClassifierObject /\ PredictorObject
    /\ ClusterObject(DefaultClusters) /\ ScorerObject /\ ExtractorObject /\ NoRun

TechStackNext == TSCTrainCall \/ TSCExtractCall

SpecTechStack == TechStackInit /\ [][TechStackNext]_vars

\* C22: extract_technologies_ml returns, for each description, exactly the
\* first two technologies of every category that has a trained model and a
\* predicted probability strictly above the threshold, and no technology of
\* any other category.
C22_TopTwoOfCategoriesAboveThreshold ==
    (tsc_call.op = "extract" /\ tsc_call.outcome = "returned") =>
        /\ Len(tsc_call.result) = Len(tsc_call.predictions)
        /\ \A i \in 1..Len(tsc_call.result) :
              LET got == tsc_call.result[i]
                  modelled == {tsc_call.before.models[k] :
                                  k \in 1..Len(tsc_call.before.models)}
                  above == {c \in modelled : tsc_call.predictions[i][c] > tsc_call.threshold}
              IN /\ Len(got) = 2 * Cardinality(above)
                 /\ {got[k] : k \in 1..Len(got)} =
                        UNION {{TechMapping[c][1], TechMapping[c][2]} : c \in above}

\* A trained classifier without a DevOps model returned technologies for a
\* description with one category exactly at the threshold and one above it.
C22_Witness ==
    /\ tsc_call.op = "extract" /\ tsc_call.outcome = "returned"
    /\ tsc_call.before.models = <<"Web Frameworks", "Programming Languages", "Databases">>
    /\ tsc_call.threshold = 50
    /\ Len(tsc_call.predictions) = 2
    /\ tsc_call.predictions[1]["Web Frameworks"] = 50
    /\ tsc_call.predictions[1]["Programming Languages"] = 90
    /\ tsc_call.predictions[1]["Databases"] = 10
    /\ tsc_call.result[1] = <<"Python", "JavaScript">>
    /\ tsc_call.result[2] =
           <<"React", "Node.js", "Python", "JavaScript", "PostgreSQL", "MongoDB">>

-----------------------------------------------------------------------------
(* Calls on one ProxyManager, from any number of threads: both methods run
   under self.lock, so each call is one step. *)

proxyOthers == <<clusterVars, extractorVars, scorerVars, run_jobs, insightVars,
                 runnerVars, signalVars, classifierVars, predictorVars, techStackVars,
                 ct_call>>

\* validate_proxies, lines 60-76: working_proxies are the proxies of
\* proxy_list that answered, in the order of proxy_list.
ValidatedLists ==
    {SelectSeq(ProxyList, LAMBDA p : p \in ok) : ok \in SUBSET (1..MaxProxies)}

\* get_next_proxy().
PMGetNextProxyCall ==
    \E r \in {GetNextProxy(pm)} :
        /\ pm' = r.m
        /\ pm_call' = [op |-> "get_next_proxy", outcome |-> r.outcome, proxy |-> r.proxy]
        /\ UNCHANGED proxyOthers

\* mark_proxy_failed(proxy).
PMMarkProxyFailedCall ==
    \E p \in 1..MaxProxies :
        /\ pm' = MarkProxyFailed(pm, p)
        /\ pm_call' = [op |-> "mark_proxy_failed", outcome |-> "returned", proxy |-> p]
        /\ UNCHANGED proxyOthers

ProxyInit ==
    /\ pm \in {[working_proxies |-> w, failed_proxies |-> {}, current_proxy_index |-> 0] :
                  w \in ValidatedLists}
    /\ pm_call = NoProxyCall
    /\ TechStackObject /\ NoClusterTyped
    /\ ClassifierObject /\ PredictorObject
    /\ ClusterObject(DefaultClusters) /\ ScorerObject /\ ExtractorObject /\ NoRun

ProxyNext == PMGetNextProxyCall \/ PMMarkProxyFailedCall

SpecProxy == ProxyInit /\ [][ProxyNext]_vars

\* C30: after any interleaving of get_next_proxy and mark_proxy_failed calls,
\* current_proxy_index is a valid index of working_proxies whenever that list
\* is not empty, and get_next_proxy neither raises IndexError nor returns a
\* proxy that is marked failed.
C30_IndexStaysValid ==
    /\ pm.working_proxies # <<>> =>
           pm.current_proxy_index \in 0..(Len(pm.working_proxies) - 1)
    /\ pm_call.op = "get_next_proxy" =>
           /\ pm_call.outcome # "raised"
           /\ pm_call.proxy \notin pm.failed_proxies

-----------------------------------------------------------------------------
(* The clusters generate_ml_company_clusters describes. *)

clusterTypeOthers == <<clusterVars, extractorVars, scorerVars, run_jobs, insightVars,
                       runnerVars, signalVars, classifierVars, predictorVars,
                       techStackVars, proxyVars>>

\* The postings of a cluster of one or two companies: A's postings, some of
\* them urgent, and none, few or many of B, all urgent or none; each company's
\* postings list none, one or all of its technologies.
ClusterMembers ==
    {CompanyPostings("A", nA, Min2(uA, nA), tA) \o CompanyPostings("B", nB, Min2(uB, nB), tB) :
        nA \in 1..MaxJobs, uA \in 0..MaxJobs, tA \in {0, 1, MaxTech},
        nB \in {0, 1, 2, MaxJobs}, uB \in {0, MaxJobs}, tB \in {0, MaxTech}}

\* One round of the loop of lines 108-134 of ml_insights.py.
DescribeCluster ==
    \E cluster_jobs \in ClusterMembers :
        \E chars \in {ClusterCharacteristics(Len(GroupCompanies(cluster_jobs)), cluster_jobs)} :
            /\ ct_call' = [op |-> "describe", type |-> ClusterType(chars), chars |-> chars]
            /\ UNCHANGED clusterTypeOthers

ClusterTypeInit ==
    /\ NoClusterTyped
    /\ TechStackObject /\ ProxyObject
    /\ ClassifierObject /\ PredictorObject
    /\ ClusterObject(DefaultClusters) /\ ScorerObject /\ ExtractorObject /\ NoRun

ClusterTypeNext == DescribeCluster

SpecClusterType == ClusterTypeInit /\ [][ClusterTypeNext]_vars

\* The technologies a cluster's postings mention most often.
MostMentioned(all_tech) ==
    LET count(t) == Cardinality({i \in 1..Len(all_tech) : all_tech[i] = t})
    IN {all_tech[i] : i \in {k \in 1..Len(all_tech) :
                                \A j \in 1..Len(all_tech) : count(all_tech[j]) <= count(all_tech[k])}}

\* C25: the type of a cluster is decided from its statistics in this order:
\* 'High-Urgency Hirers' when more than half of its postings are urgent;
\* otherwise 'Volume Hirers' when it has more than 3 postings per company;
\* otherwise the label of its most mentioned technology when its postings
\* mention any; otherwise 'Standard Hirers'.
C25_ClusterTypeByStatistics ==
    ct_call.op = "describe" =>
        LET urgent == 2 * ct_call.chars.urgent_jobs > ct_call.chars.total_jobs
            volume == ct_call.chars.total_jobs > 3 * ct_call.chars.companies
            tech == ct_call.chars.all_tech # <<>>
        IN /\ urgent => ct_call.type = <<0, "High-Urgency Hirers">>
           /\ (~urgent /\ volume) => ct_call.type = <<0, "Volume Hirers">>
           /\ (~urgent /\ ~volume /\ tech) =>
                  \E t \in MostMentioned(ct_call.chars.all_tech) :
                      ct_call.type = <<t, "Specialists">>
           /\ (~urgent /\ ~volume /\ ~tech) => ct_call.type = <<0, "Standard Hirers">>

\* A cluster of two companies with more than 3 postings per company and more
\* than half of them urgent is typed by its urgency.
C25_Witness ==
    /\ ct_call.op = "describe"
    /\ ct_call.chars.companies = 2
    /\ ct_call.chars.total_jobs > 3 * ct_call.chars.companies
    /\ 2 * ct_call.chars.urgent_jobs > ct_call.chars.total_jobs
    /\ ct_call.chars.all_tech # <<>>
    /\ ct_call.type = <<0, "High-Urgency Hirers">>

-----------------------------------------------------------------------------
(* The end of a pipeline run: the insights of generate_ml_insights and the
   summary of run_complete_ml_pipeline, for what score_opportunities returned. *)

\* The priority levels of the opportunities score_opportunities returns,
\* sorted by falling score (line 377 of clustering.py).
ScoredPriorities ==
    {Repeat("High", n[1]) \o Repeat("Medium", n[2]) \o Repeat("Low", n[3]) :
        n \in {k \in (0..MaxScored) \X (0..MaxScored) \X (0..MaxScored) :
                  k[1] + k[2] + k[3] <= MaxScored}}

\* Lines 169-199 and 252-258 of ml_agent_runner.py.
RunnerSummaryCall ==
    \E opportunities \in ScoredPriorities :
        /\ rn' = rn
        /\ rn_call' = [NoRunnerCall EXCEPT !.op = "summary", !.outcome = "returned",
                            !.has_report = TRUE, !.scored = Len(opportunities),
                            !.opportunity_rankings = OpportunityRankings(opportunities),
                            !.ml_summary_high = MLSummaryHigh(opportunities),
                            !.high_priority_opportunities = SummaryHigh(opportunities)]
        /\ UNCHANGED runnerOthers

SummaryInit ==
    /\ NoRun
    /\ TechStackObject /\ ProxyObject /\ NoClusterTyped
    /\ ClassifierObject /\ PredictorObject
    /\ ClusterObject(DefaultClusters) /\ ScorerObject /\ ExtractorObject

SummaryNext == RunnerSummaryCall

SpecSummary == SummaryInit /\ [][SummaryNext]_vars

-----------------------------------------------------------------------------
(* The posting dicts handed to the processing calls, and the dicts returned. *)

\* dict.update(fields) on the dict d: the fields are set, the others kept.
Update(d, fields) == fields @@ d

\* processed_job = job; processed_job.update(fields): the update on the
\* caller's dict itself.
UpdateInPlace(job, fields) ==
    [input |-> Update(job, fields), output |-> Update(job, fields)]

\* processed_job = job.copy(); processed_job.update(fields): the caller's dict
\* after the two statements, and the new dict.
CopyAndUpdate(job, fields) == [input |-> job, output |-> Update(job, fields)]

\* Lines 267-276 of ml_processor.py (and 186-208): the fields set on the copy,
\* from the urgency result and the technology result of the posting.
SignalFields(urgency_result, tech_result, method) ==
    [uhl |-> urgency_result.rule_based_signals # {},
     tech |-> Cardinality(tech_result.technology_adoption),
     ml_urgency_score |-> urgency_result.ml_urgency_score,
     processing_method |-> method]

\* Lines 142-152 of ml_agent_runner.py: the fields set on the copy.
RunnerFields(score, techs) ==
    [ml_predictions |-> score, ml_technology_adoption |-> techs]

\* The fields the processing calls derive.
DerivedFields ==
    {"ml_urgency_score", "processing_method", "ml_predictions", "ml_technology_adoption"}

Inputs(done) == [i \in 1..Len(done) |-> done[i].input]
Outputs(done) == [i \in 1..Len(done) |-> done[i].output]

frameBase == <<clusterVars, extractorVars, scorerVars, insightVars, classifierVars,
               predictorVars, techStackVars, proxyVars, ct_call>>

\* process_jobs_batch_ml(jobs) on the dicts of the run.
FrameBatchCall ==
    \E pred \in Predictions(sp, DescriptionsOf(run_jobs))
                \cup Predictions(SPTrain(sp, run_jobs).m, DescriptionsOf(run_jobs)),
       mlTech \in TechChoices(sp, DescriptionsOf(run_jobs))
                \cup TechChoices(SPTrain(sp, run_jobs).m, DescriptionsOf(run_jobs)) :
        \E r \in {SPBatch(sp, run_jobs, pred, mlTech)} :
            \E done \in {[i \in 1..Len(run_jobs) |->
                             CopyAndUpdate(run_jobs[i],
                                           SignalFields(r.results[i], r.tech[i],
                                                        ProcessingMethod(r.m)))]} :
                /\ run_jobs' = Inputs(done)
                /\ sp' = r.m
                /\ sp_call' = [NoSignalCall EXCEPT !.op = "batch",
                                                   !.processed_jobs = Outputs(done)]
                /\ UNCHANGED <<frameBase, runnerVars>>

\* The dicts of the run handed one at a time: the first and the last.
GivenPostings(jobs) == {i \in 1..Len(jobs) : i = 1 \/ i = Len(jobs)}

\* process_job_signals_ml(job) on one dict of the run.
FrameJobSignalsCall ==
    \E i \in GivenPostings(run_jobs) :
      \E pred \in Predictions(sp, <<run_jobs[i].desc>>),
         mlTech \in TechChoices(sp, <<run_jobs[i].desc>>) :
        \E done \in {CopyAndUpdate(
                         run_jobs[i],
                         SignalFields(
                             SPUrgency(sp, <<run_jobs[i].desc>>, pred).results[1],
                             TechnologyAdoption(
                                 SPTechnology(sp, <<run_jobs[i].desc>>, mlTech))[1],
                             ProcessingMethod(sp)))} :
            /\ run_jobs' = [run_jobs EXCEPT ![i] = done.input]
            /\ sp' = sp
            /\ sp_call' = [NoSignalCall EXCEPT !.op = "job_signals",
                                               !.processed_jobs = <<done.output>>]
            /\ UNCHANGED <<frameBase, runnerVars>>

\* process_jobs_ml(jobs) of the runner on the dicts of the run.
FrameProcessCall ==
    \E r \in {RunnerProcess(rn, run_jobs)} :
        \E score \in MLUrgencyScores, techs \in MLTechSets :
            \E done \in {IF r.call.outcome = "raised" THEN <<>>
                          ELSE [i \in 1..Len(run_jobs) |->
                                   CopyAndUpdate(run_jobs[i], RunnerFields(score, techs))]} :
                /\ run_jobs' = IF r.call.outcome = "raised" THEN run_jobs ELSE Inputs(done)
                /\ rn' = r.m
                /\ rn_call' = [r.call EXCEPT !.processed_jobs = Outputs(done)]
                /\ UNCHANGED <<frameBase, signalVars>>

FrameInit == SignalInit

FrameNext ==
    \/ FrameBatchCall
    \/ FrameJobSignalsCall
    \/ FrameProcessCall
    \/ RunnerTrainCall

SpecFrame == FrameInit /\ [][FrameNext]_vars

\* C26: no processing call changes a posting it is given: after
\* process_jobs_batch_ml, process_job_signals_ml or process_jobs_ml every input
\* posting has the fields and values it had before the call, and none of the
\* derived fields, which every returned posting has.
C26_InputPostingsNeverModified ==
    [][/\ run_jobs' = run_jobs
       /\ \A i \in 1..Len(run_jobs') : DOMAIN run_jobs'[i] \cap DerivedFields = {}
       /\ \A i \in 1..Len(sp_call'.processed_jobs) :
              {"ml_urgency_score", "processing_method"}
                  \subseteq DOMAIN sp_call'.processed_jobs[i]
       /\ \A i \in 1..Len(rn_call'.processed_jobs) :
              {"ml_predictions", "ml_technology_adoption"}
                  \subseteq DOMAIN rn_call'.processed_jobs[i]]_vars

\* A batch whose returned postings carry an urgent_hiring_language the given
\* postings, which name an urgent phrase, do not carry.
C26_Witness ==
    /\ sp_call.op = "batch"
    /\ Len(sp_call.processed_jobs) = Len(run_jobs)
    /\ \E i \in 1..Len(run_jobs) :
          /\ ~run_jobs[i].uhl /\ sp_call.processed_jobs[i].uhl
          /\ sp_call.processed_jobs[i].processing_method = "ml_hybrid"
          /\ DOMAIN run_jobs[i] \cap DerivedFields = {}

====
